------------------------- MODULE OmniClusterProofs -------------------------
(***************************************************************************)
(* For any number of peers and callers, any capacity of the channel and    *)
(* any profiles: the event loop deals with exactly the messages the        *)
(* channel took, in their order, and the list of get_active_workers is     *)
(* complete and consistent although the table changes while it is read.    *)
(* For modules of any length and any list of workers: only the operations  *)
(* that may leave the machine are sent, each once and in order, and to the *)
(* first of the best workers.                                              *)
(***************************************************************************)
EXTENDS OmniCluster, SubsequenceProofs

\* Appending behind another sequence.
LEMMA AppendBehind ==
    ASSUME NEW s, NEW q, NEW x, IsSequence(s), IsSequence(q)
    PROVE  Append(s \o q, x) = s \o Append(q, x)
  <1>1. PICK S : s \in Seq(S)
    BY DEF IsSequence
  <1>2. PICK Q : q \in Seq(Q)
    BY DEF IsSequence
  <1>3. s \in Seq(S \cup Q \cup {x}) /\ q \in Seq(S \cup Q \cup {x})
    BY <1>1, <1>2
  <1> QED BY <1>3

\* Moving the head of one sequence to the end of another.
LEMMA MoveHead ==
    ASSUME NEW s, NEW q, IsSequence(s), IsSequence(q), q # <<>>
    PROVE  /\ s \o q = Append(s, Head(q)) \o Tail(q)
           /\ IsSequence(Tail(q))
           /\ \A i \in DOMAIN Tail(q) : \E j \in DOMAIN q : Tail(q)[i] = q[j]
           /\ \E j \in DOMAIN q : Head(q) = q[j]
  <1>1. PICK S : s \in Seq(S)
    BY DEF IsSequence
  <1>2. PICK Q : q \in Seq(Q)
    BY DEF IsSequence
  <1>3. s \in Seq(S \cup Q) /\ q \in Seq(S \cup Q)
    BY <1>1, <1>2
  <1>4. s \o q = Append(s, Head(q)) \o Tail(q)
    BY <1>3
  <1>5. Tail(q) \in Seq(Q) /\ Len(Tail(q)) = Len(q) - 1 /\ Len(q) \in Nat \ {0} /\ DOMAIN q = 1..Len(q)
    BY <1>2, HeadTailProperties, LenProperties
  <1>6. \A i \in DOMAIN Tail(q) : i + 1 \in DOMAIN q /\ Tail(q)[i] = q[i + 1]
    BY <1>2, <1>5, HeadTailProperties
  <1>7. 1 \in DOMAIN q /\ Head(q) = q[1]
    BY <1>2, <1>5
  <1> QED BY <1>4, <1>5, <1>6, <1>7 DEF IsSequence

-----------------------------------------------------------------------------
\* The node.

\* The channel and what went through it; who waits to send is a function.
NodeTypes ==
    /\ IsSequence(tx_channel) /\ IsSequence(handled)
    /\ pending = [c \in DOMAIN pending |-> pending[c]]

\* The figures of a profile are numbers.
Rated(w) == w.fp16_tflops \in Nat /\ w.rtt_ms \in Nat /\ w.current_load \in Nat

\* A heartbeat comes from a peer, and the table knows peers only, each under
\* its own name.
FromPeers(m) == m.type = "Heartbeat" => m.profile.peer_id \in Peers /\ Rated(m.profile)

PeersOnly ==
    /\ \A i \in DOMAIN tx_channel : FromPeers(tx_channel[i])
    /\ \A c \in DOMAIN pending : FromPeers(pending[c])
    /\ DOMAIN routing_table \subseteq Peers
    /\ \A p \in DOMAIN routing_table : routing_table[p].peer_id = p /\ Rated(routing_table[p])

\* Nobody sends once the node is dropped, and the loop ends after that.
Closed ==
    /\ ~open => \A c \in DOMAIN pending : pending[c] = None
    /\ event_loop = "ended" => ~open

NodeInv == NodeTypes /\ PeersOnly /\ Closed /\ DeliveryExact

LEMMA NodeInitInv == NodeInit => NodeInv
  <1> SUFFICES ASSUME NodeInit PROVE NodeInv
    OBVIOUS
  <1>1. \A c \in DOMAIN pending : FromPeers(pending[c])
    BY DEF NodeInit, None, FromPeers
  <1>2. <<>> = <<>> \o <<>> /\ DOMAIN <<>> = {}
    OBVIOUS
  <1> QED BY <1>1, <1>2, EmptyIsSequence DEF NodeInit, NodeInv, NodeTypes, PeersOnly, Closed, DeliveryExact

LEMMA NodeInvStutters ==
    ASSUME NodeInv, UNCHANGED nodeVars
    PROVE  NodeInv'
  BY DEF NodeInv, NodeTypes, PeersOnly, Closed, DeliveryExact, nodeVars

\* A call of offload_task begins.
LEMMA OffloadInv ==
    ASSUME NodeInv, NEW c, NEW m, FromPeers(m), offload_task(c, m)
    PROVE  NodeInv'
  <1>1. DOMAIN pending' = DOMAIN pending /\ pending' = [d \in DOMAIN pending' |-> pending'[d]]
    BY DEF NodeInv, NodeTypes, offload_task
  <1>2. \A d \in DOMAIN pending' : pending'[d] \in {m, pending[d]}
    BY DEF offload_task
  <1>3. \A d \in DOMAIN pending' : FromPeers(pending'[d])
    BY <1>1, <1>2 DEF NodeInv, PeersOnly
  <1>4. open /\ open' = open /\ event_loop' = event_loop /\ UNCHANGED <<tx_channel, handled, accepted, routing_table>>
    BY DEF offload_task
  <1> QED BY <1>1, <1>3, <1>4 DEF NodeInv, NodeTypes, PeersOnly, Closed, DeliveryExact

LEMMA SendAcceptedInv ==
    ASSUME NodeInv, NEW c \in DOMAIN pending, SendAccepted(c)
    PROVE  NodeInv'
  <1>0. NodeTypes /\ PeersOnly /\ Closed /\ DeliveryExact
    BY DEF NodeInv
  <1>1. DOMAIN pending' = DOMAIN pending /\ pending' = [d \in DOMAIN pending' |-> pending'[d]]
    BY <1>0 DEF NodeTypes, SendAccepted
  <1>2. \A d \in DOMAIN pending' : pending'[d] \in {None, pending[d]}
    BY DEF SendAccepted
  <1>3. FromPeers(None)
    BY DEF FromPeers, None
  <1>4. open /\ event_loop # "ended"
    BY <1>0 DEF Closed, SendAccepted
  <1>5. /\ IsSequence(tx_channel')
        /\ \A i \in DOMAIN tx_channel' : tx_channel'[i] = pending[c] \/ \E j \in DOMAIN tx_channel : tx_channel'[i] = tx_channel[j]
    BY <1>0, AppendSequence DEF NodeTypes, SendAccepted
  <1>6. \A i \in DOMAIN tx_channel' : FromPeers(tx_channel'[i])
    BY <1>0, <1>5 DEF PeersOnly
  <1>7. \A d \in DOMAIN pending' : FromPeers(pending'[d])
    BY <1>0, <1>1, <1>2, <1>3 DEF PeersOnly
  <1>8. accepted' = handled \o tx_channel'
    <2>1. IsSequence(handled) /\ IsSequence(tx_channel)
      BY <1>0 DEF NodeTypes
    <2>2. Append(handled \o tx_channel, pending[c]) = handled \o Append(tx_channel, pending[c])
      BY <2>1, AppendBehind
    <2>3. accepted = handled \o tx_channel
      BY <1>0 DEF DeliveryExact
    <2>4. accepted' = Append(accepted, pending[c]) /\ tx_channel' = Append(tx_channel, pending[c])
      BY DEF SendAccepted
    <2> QED BY <2>2, <2>3, <2>4
  <1>9. UNCHANGED <<routing_table, open, event_loop, handled>>
    BY DEF SendAccepted
  <1> QED BY <1>0, <1>1, <1>4, <1>5, <1>6, <1>7, <1>8, <1>9
          DEF NodeInv, NodeTypes, PeersOnly, Closed, DeliveryExact

LEMMA CrashInv ==
    ASSUME NodeInv, NEW p \in Peers, Crash(p)
    PROVE  NodeInv'
  <1>1. DOMAIN pending' = DOMAIN pending /\ pending' = [d \in DOMAIN pending' |-> pending'[d]]
    BY DEF NodeInv, NodeTypes, Crash
  <1>2. \A d \in DOMAIN pending' : pending'[d] \in {None, pending[d]}
    BY DEF Crash
  <1>3. FromPeers(None)
    BY DEF FromPeers, None
  <1>4. \A d \in DOMAIN pending' : FromPeers(pending'[d])
    BY <1>1, <1>2, <1>3 DEF NodeInv, PeersOnly
  <1>5. ~open => \A d \in DOMAIN pending' : pending'[d] = None
    BY <1>1, <1>2 DEF NodeInv, Closed
  <1>6. UNCHANGED <<routing_table, tx_channel, open, event_loop, accepted, handled>>
    BY DEF Crash
  <1> QED BY <1>1, <1>4, <1>5, <1>6 DEF NodeInv, NodeTypes, PeersOnly, Closed, DeliveryExact

\* The table learns a profile and forgets nobody.
LEMMA PutProfileTable ==
    ASSUME PeersOnly, NEW w, w.peer_id \in Peers, Rated(w)
    PROVE  /\ DOMAIN PutProfile(w) = DOMAIN routing_table \cup {w.peer_id}
           /\ DOMAIN PutProfile(w) \subseteq Peers
           /\ \A p \in DOMAIN PutProfile(w) :
                 PutProfile(w)[p].peer_id = p /\ Rated(PutProfile(w)[p])
  BY DEF PutProfile, PeersOnly

LEMMA RegisterInv ==
    ASSUME NodeInv, NEW p \in Peers, NEW w \in Discovered, register_peer(p, w)
    PROVE  NodeInv'
  <1>1. WorkerNode(p, w).peer_id = p /\ Rated(WorkerNode(p, w))
    BY ProfilesAssumption DEF WorkerNode, Rated
  <1>2. routing_table' = PutProfile(WorkerNode(p, w)) /\ UNCHANGED <<tx_channel, pending, open, event_loop, accepted, handled>>
    BY DEF register_peer
  <1>3. /\ DOMAIN routing_table \subseteq DOMAIN routing_table' /\ DOMAIN routing_table' \subseteq Peers
        /\ \A q \in DOMAIN routing_table' : routing_table'[q].peer_id = q /\ Rated(routing_table'[q])
    BY <1>1, <1>2, PutProfileTable DEF NodeInv
  <1> QED BY <1>2, <1>3 DEF NodeInv, NodeTypes, PeersOnly, Closed, DeliveryExact

LEMMA ReceiveInv ==
    ASSUME NodeInv, Receive
    PROVE  NodeInv'
  <1> DEFINE m == Head(tx_channel)
  <1>0. NodeTypes /\ PeersOnly /\ Closed /\ DeliveryExact
    BY DEF NodeInv
  <1>1. /\ tx_channel # <<>> /\ event_loop = "running"
        /\ routing_table' = (IF m.type = "Heartbeat" THEN PutProfile(m.profile) ELSE routing_table)
        /\ handled' = Append(handled, m) /\ tx_channel' = Tail(tx_channel)
        /\ UNCHANGED <<pending, open, event_loop, accepted>>
    BY DEF Receive
  <1>2. /\ handled \o tx_channel = Append(handled, m) \o Tail(tx_channel)
        /\ IsSequence(tx_channel')
        /\ \A i \in DOMAIN tx_channel' : \E j \in DOMAIN tx_channel : tx_channel'[i] = tx_channel[j]
        /\ \E j \in DOMAIN tx_channel : m = tx_channel[j]
    BY <1>0, <1>1, MoveHead DEF NodeTypes
  <1>3. FromPeers(m) /\ \A i \in DOMAIN tx_channel' : FromPeers(tx_channel'[i])
    BY <1>0, <1>2 DEF PeersOnly
  <1> HIDE DEF m
  <1>4. /\ DOMAIN routing_table \subseteq DOMAIN routing_table' /\ DOMAIN routing_table' \subseteq Peers
        /\ m.type = "Heartbeat" => m.profile.peer_id \in DOMAIN routing_table'
        /\ \A p \in DOMAIN routing_table' : routing_table'[p].peer_id = p /\ Rated(routing_table'[p])
    <2>1. CASE m.type = "Heartbeat"
      <3>1. m.profile.peer_id \in Peers /\ Rated(m.profile)
        BY <1>3, <2>1 DEF FromPeers
      <3>2. routing_table' = PutProfile(m.profile)
        BY <1>1, <2>1
      <3>3. /\ DOMAIN PutProfile(m.profile) = DOMAIN routing_table \cup {m.profile.peer_id}
            /\ DOMAIN PutProfile(m.profile) \subseteq Peers
            /\ \A p \in DOMAIN PutProfile(m.profile) :
                  PutProfile(m.profile)[p].peer_id = p /\ Rated(PutProfile(m.profile)[p])
        BY <1>0, <3>1, PutProfileTable
      <3> QED BY <3>2, <3>3
    <2>2. CASE m.type # "Heartbeat"
      BY <1>0, <1>1, <2>2 DEF PeersOnly
    <2> QED BY <2>1, <2>2
  <1>5. /\ IsSequence(handled')
        /\ \A i \in DOMAIN handled' : handled'[i] = m \/ (i \in DOMAIN handled /\ handled'[i] = handled[i])
    BY <1>0, <1>1, AppendSequence DEF NodeTypes
  <1>6. DeliveryExact'
    <2>1. accepted' = handled' \o tx_channel'
      BY <1>0, <1>1, <1>2 DEF DeliveryExact
    <2>2. \A i \in DOMAIN handled' :
             handled'[i].type = "Heartbeat" => handled'[i].profile.peer_id \in DOMAIN routing_table'
      BY <1>0, <1>4, <1>5 DEF DeliveryExact
    <2> QED BY <1>1, <2>1, <2>2 DEF DeliveryExact
  <1>7. NodeTypes'
    BY <1>0, <1>1, <1>2, <1>5 DEF NodeTypes
  <1>8. PeersOnly' /\ Closed'
    BY <1>0, <1>1, <1>3, <1>4 DEF PeersOnly, Closed
  <1> QED BY <1>6, <1>7, <1>8 DEF NodeInv

\* What the peers and callers do only adds to the table.
LEMMA NodeNextInv ==
    ASSUME NodeInv, NodeNext
    PROVE  NodeInv'
  <1>1. ASSUME NEW p \in Peers, Beat(p)
        PROVE  NodeInv'
    <2>1. FromPeers(Heartbeat(worker_profile(p)))
      <3>1. worker_profile(p).peer_id = p
        BY DEF worker_profile, WorkerNode
      <3>2. Rated(worker_profile(p))
        BY DEF worker_profile, WorkerNode, Rated
      <3> QED BY <3>1, <3>2 DEF FromPeers, Heartbeat
    <2> QED BY <1>1, <2>1, OffloadInv DEF Beat
  <1>2. ASSUME NEW p \in Peers, Crash(p)
        PROVE  NodeInv'
    BY <1>2, CrashInv
  <1>3. ASSUME NEW p \in Peers, NEW w \in Discovered, register_peer(p, w)
        PROVE  NodeInv'
    BY <1>3, RegisterInv
  <1>4. ASSUME NEW c \in DOMAIN pending, SendAccepted(c)
        PROVE  NodeInv'
    BY <1>4, SendAcceptedInv
  <1>5. CASE Receive
    BY <1>5, ReceiveInv
  <1>6. CASE LoopEnds
    BY <1>6 DEF LoopEnds, NodeInv, NodeTypes, PeersOnly, Closed, DeliveryExact
  <1> QED BY <1>1, <1>2, <1>3, <1>4, <1>5, <1>6 DEF NodeNext

LEMMA DropNodeInv ==
    ASSUME NodeInv, DropNode
    PROVE  NodeInv'
  BY DEF DropNode, NodeInv, NodeTypes, PeersOnly, Closed, DeliveryExact

\* The table forgets nobody.
LEMMA TableGrows ==
    ASSUME NodeNext
    PROVE  DOMAIN routing_table \subseteq DOMAIN routing_table'
  <1>1. \A w : DOMAIN routing_table \subseteq DOMAIN PutProfile(w)
    BY DEF PutProfile
  <1>2. ASSUME NEW p \in Peers, Beat(p) \/ Crash(p)
        PROVE  routing_table' = routing_table
    BY <1>2 DEF Beat, Crash, offload_task
  <1>3. ASSUME NEW p \in Peers, NEW w \in Discovered, register_peer(p, w)
        PROVE  DOMAIN routing_table \subseteq DOMAIN routing_table'
    BY <1>1, <1>3 DEF register_peer
  <1>4. ASSUME NEW c \in DOMAIN pending, SendAccepted(c)
        PROVE  routing_table' = routing_table
    BY <1>4 DEF SendAccepted
  <1>5. CASE Receive
    BY <1>1, <1>5 DEF Receive
  <1>6. CASE LoopEnds
    BY <1>6 DEF LoopEnds
  <1> QED BY <1>2, <1>3, <1>4, <1>5, <1>6 DEF NodeNext

-----------------------------------------------------------------------------
\* The list of workers.

\* The list before, while and after the shards are visited.
ListTypes ==
    /\ IsSequence(workers)
    /\ \A i \in DOMAIN workers : Rated(workers[i])
    /\ unread \subseteq Peers
    /\ since = [p \in Peers |-> since[p]]
    /\ stage = "idle" => workers = <<>>
    /\ stage = "listed" => unread = {}

\* The list so far: whoever is in it has been visited, is in it once, and with
\* a profile of the meantime.
ListedOnce ==
    stage \in {"reading", "listed"} =>
        \A i \in DOMAIN workers :
            /\ workers[i].peer_id \in Peers \ unread
            /\ workers[i] \in since[workers[i].peer_id]
            /\ \A j \in DOMAIN workers : workers[j].peer_id = workers[i].peer_id => i = j

\* Whoever was known at the beginning is in the list or will be visited, and
\* is still in the table when that happens.
NobodyMissed ==
    stage \in {"reading", "listed"} =>
        /\ known \subseteq Peers \cap DOMAIN routing_table
        /\ \A p \in known : p \in unread \/ \E i \in DOMAIN workers : workers[i].peer_id = p

\* The profile a visit would find is one of the meantime.
ProfilesNoted ==
    stage = "reading" =>
        \A p \in Peers \cap DOMAIN routing_table : routing_table[p] \in since[p]

ListInv == ListTypes /\ ListedOnce /\ NobodyMissed /\ ProfilesNoted

ClusterInv == NodeInv /\ ListInv

LEMMA ClusterInitInv == Init => ClusterInv
  <1> SUFFICES ASSUME Init PROVE ClusterInv
    OBVIOUS
  <1>1. NodeInv
    BY NodeInitInv DEF Init
  <1>2. ListTypes
    BY EmptyIsSequence DEF Init, ListTypes
  <1>3. ListedOnce /\ NobodyMissed /\ ProfilesNoted
    BY DEF Init, ListedOnce, NobodyMissed, ProfilesNoted
  <1> QED BY <1>1, <1>2, <1>3 DEF ClusterInv, ListInv

\* The node moves on while the coordinator is where it was.
LEMMA MeanwhileInv ==
    ASSUME ClusterInv, NodeNext, Meanwhile
    PROVE  ListInv'
  <1>0. ListTypes /\ ListedOnce /\ NobodyMissed /\ ProfilesNoted
    BY DEF ClusterInv, ListInv
  <1>1. UNCHANGED <<stage, unread, workers, known>>
    BY DEF Meanwhile
  <1>2. /\ since' = [p \in Peers |-> since'[p]]
        /\ \A p \in Peers : since[p] \subseteq since'[p]
        /\ \A p \in Peers : stage = "reading" /\ p \in DOMAIN routing_table' => routing_table'[p] \in since'[p]
    BY DEF Meanwhile
  <1>3. ListTypes'
    BY <1>0, <1>1, <1>2 DEF ListTypes
  <1>4. ListedOnce'
    BY <1>0, <1>1, <1>2 DEF ListedOnce
  <1>5. NobodyMissed'
    BY <1>0, <1>1, TableGrows DEF NobodyMissed
  <1>6. ProfilesNoted'
    BY <1>1, <1>2 DEF ProfilesNoted
  <1> QED BY <1>3, <1>4, <1>5, <1>6 DEF ListInv

LEMMA BeginListInv ==
    ASSUME ClusterInv, BeginList
    PROVE  ListInv'
  <1>0. NodeInv /\ ListTypes
    BY DEF ClusterInv, ListInv
  <1>1. workers' = workers /\ workers = <<>> /\ DOMAIN workers = {}
    BY <1>0 DEF BeginList, ListTypes
  <1>2. ListTypes'
    BY <1>0, <1>1 DEF ListTypes, BeginList
  <1>3. DOMAIN routing_table \subseteq Peers /\ routing_table' = routing_table
    BY <1>0 DEF NodeInv, PeersOnly, BeginList, nodeVars
  <1>4. ListedOnce'
    BY <1>1 DEF ListedOnce
  <1>5. NobodyMissed' /\ ProfilesNoted'
    BY <1>3 DEF NobodyMissed, ProfilesNoted, BeginList
  <1> QED BY <1>2, <1>4, <1>5 DEF ListInv

\* A visit adds the peer's present profile, if it has one.
LEMMA ReadShardInv ==
    ASSUME ClusterInv, NEW p \in Peers, ReadShard(p)
    PROVE  ListInv'
  <1>0. NodeInv /\ ListTypes /\ ListedOnce /\ NobodyMissed /\ ProfilesNoted
    BY DEF ClusterInv, ListInv
  <1>1. /\ stage = "reading" /\ stage' = "reading" /\ p \in unread /\ unread' = unread \ {p}
        /\ UNCHANGED <<routing_table, known, since>>
    BY DEF ReadShard, nodeVars
  <1>2. ProfilesNoted'
    BY <1>0, <1>1 DEF ProfilesNoted
  <1>3. CASE p \notin DOMAIN routing_table
    <2>1. workers' = workers
      BY <1>3 DEF ReadShard
    <2>2. ListTypes'
      BY <1>0, <1>1, <2>1 DEF ListTypes
    <2>3. ListedOnce'
      BY <1>0, <1>1, <2>1 DEF ListedOnce
    <2>4. NobodyMissed'
      BY <1>0, <1>1, <1>3, <2>1 DEF NobodyMissed
    <2> QED BY <1>2, <2>2, <2>3, <2>4 DEF ListInv
  <1>4. CASE p \in DOMAIN routing_table
    <2> DEFINE w == routing_table[p]
               n == Len(workers) + 1
    <2>1. w.peer_id = p /\ w \in since[p] /\ Rated(w)
      BY <1>0, <1>1, <1>4 DEF NodeInv, PeersOnly, ProfilesNoted
    <2>2. workers' = Append(workers, w)
      BY <1>4 DEF ReadShard
    <2> HIDE DEF w
    <2>3. IsSequence(workers)
      BY <1>0 DEF ListTypes
    <2>4. /\ IsSequence(workers')
          /\ DOMAIN workers' = DOMAIN workers \cup {n} /\ n \notin DOMAIN workers
          /\ \A i \in DOMAIN workers : workers'[i] = workers[i]
          /\ workers'[n] = w
      BY <2>2, <2>3, AppendSequence
    <2> HIDE DEF n
    <2>5. \A i \in DOMAIN workers :
             /\ workers[i].peer_id \in Peers \ unread
             /\ workers[i] \in since[workers[i].peer_id]
             /\ \A j \in DOMAIN workers : workers[j].peer_id = workers[i].peer_id => i = j
      BY <1>0, <1>1 DEF ListedOnce
    <2>6. ListTypes'
      BY <1>0, <1>1, <2>1, <2>4 DEF ListTypes
    <2>7. ListedOnce'
      <3>1. \A i \in DOMAIN workers' :
               workers'[i].peer_id \in Peers \ unread' /\ workers'[i] \in since[workers'[i].peer_id]
        BY <1>1, <2>1, <2>4, <2>5
      <3>2. \A i \in DOMAIN workers : workers[i].peer_id # p
        BY <1>1, <2>5
      <3>3. \A i, j \in DOMAIN workers' : workers'[j].peer_id = workers'[i].peer_id => i = j
        BY <2>1, <2>4, <2>5, <3>2
      <3> QED BY <1>1, <3>1, <3>3 DEF ListedOnce
    <2>8. NobodyMissed'
      <3>1. \A q \in known : q \in unread \/ \E i \in DOMAIN workers : workers[i].peer_id = q
        BY <1>0, <1>1 DEF NobodyMissed
      <3>2. \A q \in known : q \in unread' \/ \E i \in DOMAIN workers' : workers'[i].peer_id = q
        BY <1>1, <2>1, <2>4, <3>1
      <3> QED BY <1>0, <1>1, <3>2 DEF NobodyMissed
    <2> QED BY <1>2, <2>6, <2>7, <2>8 DEF ListInv
  <1> QED BY <1>3, <1>4

LEMMA EndListInv ==
    ASSUME ClusterInv, EndList
    PROVE  ListInv'
  <1>0. ListTypes /\ ListedOnce /\ NobodyMissed
    BY DEF ClusterInv, ListInv
  <1>1. /\ stage = "reading" /\ stage' = "listed" /\ unread = {}
        /\ UNCHANGED <<routing_table, unread, workers, known, since>>
    BY DEF EndList, nodeVars
  <1>2. ListTypes'
    BY <1>0, <1>1 DEF ListTypes
  <1>3. ListedOnce'
    BY <1>0, <1>1 DEF ListedOnce
  <1>4. NobodyMissed' /\ ProfilesNoted'
    BY <1>0, <1>1 DEF NobodyMissed, ProfilesNoted
  <1> QED BY <1>2, <1>3, <1>4 DEF ListInv

\* Once the list is used, nothing is claimed of it any more.
LEMMA BeyondListInv ==
    ASSUME ClusterInv, workers' = workers, unread' = unread,
           stage' \in {"error", "offloading"}, since' = [p \in Peers |-> since'[p]]
    PROVE  ListInv'
  BY DEF ClusterInv, ListInv, ListTypes, ListedOnce, NobodyMissed, ProfilesNoted

LEMMA ClusterStepInv ==
    ASSUME ClusterInv, [Next]_vars
    PROVE  ClusterInv'
  <1>0. NodeInv /\ ListTypes
    BY DEF ClusterInv, ListInv
  <1>1. CASE NodeNext /\ Meanwhile
    BY <1>0, <1>1, NodeNextInv, MeanwhileInv DEF ClusterInv
  <1>2. CASE Drop
    <2>1. NodeInv'
      BY <1>0, <1>2, DropNodeInv DEF Drop
    <2>2. ListInv'
      BY <1>2 DEF Drop, DropNode, coordinatorVars, ClusterInv, ListInv, ListTypes,
                  ListedOnce, NobodyMissed, ProfilesNoted
    <2> QED BY <2>1, <2>2 DEF ClusterInv
  <1>3. CASE BeginList
    BY <1>0, <1>3, NodeInvStutters, BeginListInv DEF ClusterInv, BeginList
  <1>4. ASSUME NEW p \in Peers, ReadShard(p)
        PROVE  ClusterInv'
    BY <1>0, <1>4, NodeInvStutters, ReadShardInv DEF ClusterInv, ReadShard
  <1>5. CASE EndList
    BY <1>0, <1>5, NodeInvStutters, EndListInv DEF ClusterInv, EndList
  <1>6. CASE ScheduleFails
    <2>1. NodeInv'
      BY <1>0, <1>6, NodeInvStutters DEF ScheduleFails
    <2>2. ListInv'
      BY <1>0, <1>6, BeyondListInv DEF ScheduleFails, ListTypes
    <2> QED BY <2>1, <2>2 DEF ClusterInv
  <1>7. ASSUME NEW kinds, Schedule(kinds)
        PROVE  ClusterInv'
    <2>1. NodeInv'
      BY <1>0, <1>7, NodeInvStutters DEF Schedule
    <2>2. ListInv'
      BY <1>7, BeyondListInv DEF Schedule
    <2> QED BY <2>1, <2>2 DEF ClusterInv
  <1>8. CASE OffloadNext
    <2>1. FromPeers(TaskRequest(dispatches[next]))
      BY DEF FromPeers, TaskRequest
    <2>2. NodeInv'
      BY <1>0, <1>8, <2>1, OffloadInv DEF OffloadNext
    <2>3. ListInv'
      BY <1>0, <1>8, BeyondListInv DEF OffloadNext, ListTypes
    <2> QED BY <2>2, <2>3 DEF ClusterInv
  <1>9. CASE UNCHANGED vars
    <2>1. NodeInv'
      BY <1>0, <1>9, NodeInvStutters DEF vars
    <2>2. ListInv'
      BY <1>9 DEF vars, nodeVars, coordinatorVars, ClusterInv, ListInv, ListTypes,
                  ListedOnce, NobodyMissed, ProfilesNoted
    <2> QED BY <2>1, <2>2 DEF ClusterInv
  <1> QED BY <1>1, <1>2, <1>3, <1>4, <1>5, <1>6, <1>7, <1>8, <1>9 DEF Next

LEMMA ClusterInvariant == Spec => []ClusterInv
  <1> QED BY ClusterInitInv, ClusterStepInv, PTL DEF Spec

(* Whatever the capacity and however many senders wait for room: the event *)
(* loop gets every message the channel took, once, in order, it never ends *)
(* with messages in the channel, and the sender of every heartbeat it saw  *)
(* stays in the routing table.                                             *)
THEOREM Delivery == Spec => []DeliveryExact
  <1>1. ClusterInv => DeliveryExact
    BY DEF ClusterInv, NodeInv
  <1> QED BY <1>1, ClusterInvariant, PTL

(* Whoever registers and whichever heartbeats arrive while                 *)
(* get_active_workers visits the shards one by one, its list has every     *)
(* peer known at the beginning, none twice, each with a profile it had     *)
(* during the call.                                                        *)
THEOREM ListTheorem == Spec => []ListConsistent
  <1>1. ClusterInv => ListConsistent
    BY DEF ClusterInv, ListInv, ListTypes, ListedOnce, NobodyMissed, ListConsistent
  <1> QED BY <1>1, ClusterInvariant, PTL

-----------------------------------------------------------------------------
(* The router.                                                             *)

\* Scores are fractions of natural numbers.
IsScore(a) == a.num \in Nat /\ a.den \in Nat \ {0}

LEMMA ScoreType ==
    ASSUME NEW w, Rated(w)
    PROVE  IsScore(Score(w))
  <1> DEFINE t == w.fp16_tflops
             r == w.rtt_ms + 1
             l == w.current_load
  <1>1. t \in Nat /\ r \in Nat \ {0} /\ l \in Nat
    BY DEF Rated
  <1>2. 100 * r \in Nat \ {0} /\ t * 100 \in Nat
    BY <1>1
  <1>3. (100 + l) * r \in Nat \ {0}
    <2>1. 100 + l \in Nat \ {0}
      BY <1>1
    <2> DEFINE q == 100 + l
    <2> HIDE DEF q, r
    <2>2. q \in Nat \ {0} => q * r \in Nat \ {0}
      BY <1>1
    <2> QED BY <2>1, <2>2 DEF q
  <1> QED BY <1>1, <1>2, <1>3 DEF Score, IsScore

\* Whoever beats the best so far beats everybody the best so far has beaten.
LEMMA GreaterThanAll ==
    ASSUME NEW c, NEW b, NEW x, IsScore(c), IsScore(b), IsScore(x),
           Greater(c, b), ~Greater(x, b)
    PROVE  Greater(c, x)
  <1> DEFINE cn == c.num
             cd == c.den
             bn == b.num
             bd == b.den
             xn == x.num
             xd == x.den
  <1>1. /\ cn \in Nat /\ bn \in Nat /\ xn \in Nat
        /\ cd \in Nat \ {0} /\ bd \in Nat \ {0} /\ xd \in Nat \ {0}
        /\ cn * bd > bn * cd /\ ~(xn * bd > bn * xd)
    BY DEF IsScore, Greater
  <1>2. ASSUME cn * xd <= xn * cd PROVE FALSE
    <2> HIDE DEF cn, cd, bn, bd, xn, xd
    <2>1. (cn * bd) * xd > (bn * cd) * xd
      BY <1>1
    <2>2. (xn * bd) * cd <= (bn * xd) * cd
      BY <1>1
    <2>3. (cn * xd) * bd <= (xn * cd) * bd
      BY <1>1, <1>2
    <2>4. /\ (cn * bd) * xd = (cn * xd) * bd
          /\ (bn * cd) * xd = (bn * xd) * cd
          /\ (xn * bd) * cd = (xn * cd) * bd
      BY <1>1
    <2>5. /\ (cn * bd) * xd \in Nat /\ (bn * cd) * xd \in Nat /\ (xn * bd) * cd \in Nat
      BY <1>1
    <2> QED BY <2>1, <2>2, <2>3, <2>4, <2>5
  <1>3. cn * xd \in Nat /\ xn * cd \in Nat
    BY <1>1
  <1> QED BY <1>2, <1>3 DEF Greater

\* Nobody beats himself.
LEMMA NotGreaterThanItself ==
    ASSUME NEW a, IsScore(a)
    PROVE  ~Greater(a, a)
  <1>1. a.num * a.den \in Nat
    BY DEF IsScore
  <1> QED BY <1>1 DEF Greater

BestEq(f, ws, m) ==
    f = [n \in 1..m |-> IF n = 1 THEN ws[1] ELSE KeepBetter(f[n - 1], ws[n])]

\* The scan over the workers has a result.
LEMMA BestExists ==
    ASSUME NEW ws, NEW m \in Nat
    PROVE  \E f : BestEq(f, ws, m)
  <1> DEFINE G == {n \in Nat : \E f : BestEq(f, ws, n)}
  <1>1. 0 \in G
    <2> DEFINE f == [n \in 1..0 |-> 0]
    <2>1. BestEq(f, ws, 0)
      BY DEF BestEq
    <2> HIDE DEF f
    <2> QED BY <2>1
  <1>2. ASSUME NEW n \in Nat, n \in G PROVE n + 1 \in G
    <2>1. PICK f : BestEq(f, ws, n)
      BY <1>2
    <2> DEFINE x == IF n + 1 = 1 THEN ws[1] ELSE KeepBetter(f[n], ws[n + 1])
               g == [i \in 1..(n + 1) |-> IF i = n + 1 THEN x ELSE f[i]]
    <2> HIDE DEF x
    <2>2. \A i \in 1..n : f[i] = IF i = 1 THEN ws[1] ELSE KeepBetter(f[i - 1], ws[i])
      BY <2>1 DEF BestEq
    <2>3. \A i \in 1..n : g[i] = f[i]
      OBVIOUS
    <2>4. g[n + 1] = x
      OBVIOUS
    <2>5. DOMAIN g = 1..(n + 1) /\ g = [i \in 1..(n + 1) |-> g[i]]
      OBVIOUS
    <2> HIDE DEF g
    <2>6. ASSUME NEW i \in 1..(n + 1)
          PROVE  g[i] = IF i = 1 THEN ws[1] ELSE KeepBetter(g[i - 1], ws[i])
      <3>1. CASE i = n + 1
        <4>1. i - 1 = n /\ (i # 1 => g[i - 1] = f[n])
          BY <3>1, <2>3
        <4> QED BY <4>1, <3>1, <2>4 DEF x
      <3>2. CASE i # n + 1
        <4>1. i \in 1..n /\ g[i] = f[i]
          BY <3>2, <2>3
        <4>2. i # 1 => g[i - 1] = f[i - 1]
          BY <4>1, <2>3
        <4> QED BY <4>1, <4>2, <2>2
      <3> QED BY <3>1, <3>2
    <2>7. BestEq(g, ws, n + 1)
      BY <2>5, <2>6 DEF BestEq
    <2> QED BY <2>7
  <1>3. \A n \in Nat : n < m /\ n \in G => n + 1 \in G
    BY <1>2
  <1> HIDE DEF G
  <1>4. m \in 0..m /\ \A n \in 0..m : n \in G
    BY <1>1, <1>3, Induction
  <1> QED BY <1>4 DEF G

\* The i-th worker is the first of the best among the first n.
FirstBest(ws, i, n) ==
    \A j \in 1..n : /\ ~Greater(Score(ws[j]), Score(ws[i]))
                    /\ j < i => Greater(Score(ws[i]), Score(ws[j]))

\* The scan finds it.
LEMMA BestOfIsBest ==
    ASSUME NEW ws, IsSequence(ws), ws # <<>>, \A i \in DOMAIN ws : Rated(ws[i])
    PROVE  \E i \in DOMAIN ws : BestOf(ws)[Len(ws)] = ws[i] /\ FirstBest(ws, i, Len(ws))
  <1> DEFINE m == Len(ws)
             f == BestOf(ws)
             G == {n \in Nat : n # 0 => \E i \in 1..n : f[n] = ws[i] /\ FirstBest(ws, i, n)}
  <1>1. m \in Nat /\ DOMAIN ws = 1..m /\ m # 0
    BY SequenceFacts, EmptySeq DEF IsSequence
  <1>2. f = CHOOSE g : BestEq(g, ws, Len(ws))
    BY DEF BestOf, BestEq
  <1>3. BestEq(f, ws, m)
    BY <1>1, <1>2, BestExists
  <1> HIDE DEF f
  <1>4. \A n \in 1..m : f[n] = IF n = 1 THEN ws[1] ELSE KeepBetter(f[n - 1], ws[n])
    BY <1>3 DEF BestEq
  <1>5. \A i \in 1..m : IsScore(Score(ws[i]))
    BY <1>1, ScoreType
  <1>6. ASSUME NEW n \in Nat, n < m, n \in G PROVE n + 1 \in G
    <2>1. CASE n = 0
      <3>1. f[1] = ws[1] /\ 1 \in 1..m
        BY <1>1, <1>4
      <3>2. ~Greater(Score(ws[1]), Score(ws[1]))
        BY <3>1, <1>5, NotGreaterThanItself
      <3>3. FirstBest(ws, 1, 1)
        BY <3>2 DEF FirstBest
      <3> QED BY <2>1, <3>1, <3>3
    <2>2. CASE n # 0
      <3>1. PICK i \in 1..n : f[n] = ws[i] /\ FirstBest(ws, i, n)
        BY <1>6, <2>2
      <3>2. n + 1 \in 1..m /\ n + 1 # 1 /\ (n + 1) - 1 = n
        BY <1>6, <2>2, <1>1
      <3>3. f[n + 1] = KeepBetter(ws[i], ws[n + 1])
        BY <1>4, <3>1, <3>2
      <3>4. CASE Greater(Score(ws[n + 1]), Score(ws[i]))
        <4>1. f[n + 1] = ws[n + 1]
          BY <3>3, <3>4 DEF KeepBetter
        <4>2. ~Greater(Score(ws[n + 1]), Score(ws[n + 1]))
          BY <3>2, <1>5, NotGreaterThanItself
        <4>3. ASSUME NEW j \in 1..n PROVE Greater(Score(ws[n + 1]), Score(ws[j]))
          <5>1. ~Greater(Score(ws[j]), Score(ws[i])) /\ j \in 1..m /\ i \in 1..m
            BY <3>1, <1>6, <1>1 DEF FirstBest
          <5> QED BY <5>1, <3>2, <3>4, <1>5, GreaterThanAll
        <4>4. ASSUME NEW j \in 1..n PROVE ~Greater(Score(ws[j]), Score(ws[n + 1]))
          <5>1. IsScore(Score(ws[j])) /\ IsScore(Score(ws[n + 1]))
            BY <3>2, <1>5, <1>6, <1>1
          <5>2. Greater(Score(ws[j]), Score(ws[n + 1])) => ~Greater(Score(ws[n + 1]), Score(ws[j]))
            BY <5>1 DEF Greater, IsScore
          <5> QED BY <5>2, <4>3
        <4>5. FirstBest(ws, n + 1, n + 1)
          BY <4>2, <4>3, <4>4 DEF FirstBest
        <4> QED BY <4>1, <4>5
      <3>5. CASE ~Greater(Score(ws[n + 1]), Score(ws[i]))
        <4>1. f[n + 1] = ws[i]
          BY <3>3, <3>5 DEF KeepBetter
        <4>2. FirstBest(ws, i, n + 1)
          BY <3>1, <3>5 DEF FirstBest
        <4> QED BY <4>1, <4>2
      <3> QED BY <3>4, <3>5
    <2> QED BY <2>1, <2>2
  <1>7. \A n \in Nat : n < m /\ n \in G => n + 1 \in G
    BY <1>6
  <1>8. 0 \in G
    OBVIOUS
  <1> HIDE DEF G, m
  <1>9. m \in 0..m /\ \A n \in 0..m : n \in G
    BY <1>1, <1>7, <1>8, Induction
  <1>10. PICK i \in 1..m : f[m] = ws[i] /\ FirstBest(ws, i, m)
    BY <1>1, <1>9 DEF G
  <1> QED BY <1>1, <1>10 DEF f, m

\* The operations of a module that may leave the machine.
MayLeave(prog) ==
    {i \in DOMAIN prog : prog[i].kind \in {"MatMul", "BatchedMatMul", "Add", "Mul", "UnaryFunc"}}

\* A list of dispatches has each of these once, in order.
Complete(list, prog) ==
    /\ IsSequence(list)
    /\ \A k \in DOMAIN list : list[k].op.id \in MayLeave(prog)
    /\ \A k, l \in DOMAIN list : k < l => list[k].op.id < list[l].op.id
    /\ \A i \in MayLeave(prog) : \E k \in DOMAIN list : list[k].op.id = i

LEMMA EmptyComplete == Complete(<<>>, <<>>)
  <1>1. DOMAIN <<>> = {}
    OBVIOUS
  <1> QED BY <1>1, EmptyIsSequence DEF Complete, MayLeave

\* blind_split and schedule_global_ops together.
LEMMA ScheduleComplete ==
    ASSUME NEW n \in Nat, NEW kinds, DOMAIN kinds = 1..n, NEW ws
    PROVE  /\ Complete(schedule_global_ops(global_ops(Module(kinds)), ws), Module(kinds))
           /\ LET list == schedule_global_ops(global_ops(Module(kinds)), ws)
              IN  \A k \in DOMAIN list : list[k].target_peer_id = BestOf(ws)[Len(ws)].peer_id
  <1> DEFINE prog == Module(kinds)
             K == MayLeave(prog)
             picked == Pick(prog, K)
             list == schedule_global_ops(global_ops(prog), ws)
  <1>1. DOMAIN prog = 1..n /\ prog = [i \in 1..n |-> prog[i]] /\ \A i \in 1..n : prog[i].id = i
    BY DEF Module
  <1> HIDE DEF prog
  <1>2. IsSequence(prog) /\ Len(prog) = n
    BY <1>1, FunctionIsSequence
  <1>3. global_ops(prog) = picked
    BY DEF global_ops, MayLeave, Offloadable
  <1>4. K \in SUBSET (1..Len(prog))
    BY <1>1, <1>2 DEF MayLeave
  <1> HIDE DEF K
  <1>5. IsSequence(picked) /\ IsSubsequence(picked, prog, K)
    BY <1>2, <1>4, PickIsSubsequence
  <1> HIDE DEF picked
  <1>6. PICK at \in [DOMAIN picked -> K] :
           /\ \A k \in DOMAIN picked : picked[k] = prog[at[k]]
           /\ \A k, l \in DOMAIN picked : k < l => at[k] < at[l]
           /\ \A i \in K : \E k \in DOMAIN picked : at[k] = i
    BY <1>5 DEF IsSubsequence
  <1>7. /\ DOMAIN list = DOMAIN picked /\ list = [k \in DOMAIN picked |-> list[k]]
        /\ \A k \in DOMAIN list : /\ list[k].op = picked[k]
                                  /\ list[k].target_peer_id = BestOf(ws)[Len(ws)].peer_id
    BY <1>3 DEF schedule_global_ops
  <1> HIDE DEF list
  <1>8. IsSequence(list)
    <2>1. DOMAIN picked = 1..Len(picked) /\ Len(picked) \in Nat
      BY <1>5, SequenceFacts
    <2>2. DOMAIN list = 1..Len(picked) /\ list = [k \in 1..Len(picked) |-> list[k]]
      BY <1>7, <2>1
    <2> QED BY <2>1, <2>2, FunctionIsSequence
  <1>9. ASSUME NEW k \in DOMAIN list PROVE list[k].op.id = at[k] /\ at[k] \in K
    <2>1. at[k] \in K /\ at[k] \in 1..n
      BY <1>2, <1>4, <1>6, <1>7
    <2>2. list[k].op = prog[at[k]]
      BY <1>6, <1>7
    <2> QED BY <1>1, <2>1, <2>2
  <1>10. Complete(list, prog)
    BY <1>6, <1>7, <1>8, <1>9 DEF Complete, K
  <1> QED BY <1>7, <1>10 DEF list, prog

\* How many of the dispatches have entered the queue.
Queued == IF pending[Coordinator] = None THEN next - 1 ELSE next - 2

IsSent(i) == accepted[i].type = "TaskRequest"

\* The dispatches are those of the module, there are none before it is split,
\* and the next to offload is one of them or the end.
DispatchInv ==
    /\ Complete(dispatches, ops) /\ BestWorkerChosen
    /\ stage # "offloading" => dispatches = <<>> /\ ops = <<>>
    /\ next \in 1..(Len(dispatches) + 1)

\* Only the coordinator has task requests, the one it waits with being the
\* last it took from the list; what the queue has seen are the ones before.
SentInv ==
    /\ IsSequence(accepted)
    /\ DOMAIN pending = Peers \cup Callers
    /\ \A c \in DOMAIN pending : pending[c].type = "TaskRequest" => c = Coordinator
    /\ pending[Coordinator] # None =>
          next >= 2 /\ pending[Coordinator] = TaskRequest(dispatches[next - 1])
    /\ \A i \in DOMAIN accepted :
          IsSent(i) => \E k \in 1..Queued : accepted[i].task = dispatches[k]
    /\ \A i, j \in DOMAIN accepted :
          IsSent(i) /\ IsSent(j) /\ i < j => accepted[i].task.op.id < accepted[j].task.op.id
    /\ \A k \in 1..Queued : \E i \in DOMAIN accepted : IsSent(i) /\ accepted[i].task = dispatches[k]

RouterInv == DispatchInv /\ SentInv

LEMMA RouterInitInv == Init => RouterInv
  <1> SUFFICES ASSUME Init PROVE RouterInv
    OBVIOUS
  <1>1. DOMAIN <<>> = {} /\ Len(<<>>) = 0
    OBVIOUS
  <1>2. DispatchInv
    BY <1>1, EmptyComplete DEF Init, DispatchInv, BestWorkerChosen
  <1>3. Coordinator \in DOMAIN pending /\ DOMAIN pending = Peers \cup Callers
        /\ \A c \in DOMAIN pending : pending[c] = None
    BY CoordinatorAssumption DEF Init, NodeInit
  <1>4. Queued = 0
    BY <1>3 DEF Queued, Init
  <1>5. \A c \in DOMAIN pending : pending[c].type # "TaskRequest"
    BY <1>3 DEF None
  <1> QED BY <1>1, <1>2, <1>3, <1>4, <1>5, EmptyIsSequence DEF RouterInv, SentInv, Init, NodeInit

\* A step that leaves the dispatches alone.
LEMMA DispatchUnchanged ==
    ASSUME DispatchInv, UNCHANGED <<workers, ops, dispatches, next>>,
           stage' # "offloading" => stage # "offloading"
    PROVE  DispatchInv'
  BY DEF DispatchInv, Complete, MayLeave, BestWorkerChosen

\* Nothing enters the queue, and the coordinator waits as before.
LEMMA SentUnchanged ==
    ASSUME SentInv, UNCHANGED <<accepted, dispatches, next>>,
           DOMAIN pending' = DOMAIN pending,
           \A c \in DOMAIN pending : pending'[c].type = "TaskRequest" => pending'[c] = pending[c],
           pending'[Coordinator] = pending[Coordinator]
    PROVE  SentInv'
  <1>1. Queued' = Queued
    BY DEF Queued, None
  <1> QED BY <1>1 DEF SentInv, IsSent, None, TaskRequest

\* The coordinator's request, or a message of somebody else, enters the queue.
LEMMA SendAcceptedRouterInv ==
    ASSUME NodeTypes, RouterInv, NEW c \in DOMAIN pending, SendAccepted(c),
           UNCHANGED <<stage, workers, ops, dispatches, next>>
    PROVE  RouterInv'
  <1>0. DispatchInv /\ SentInv
    BY DEF RouterInv
  <1>1. DispatchInv'
    BY <1>0, DispatchUnchanged
  <1> DEFINE m == pending[c]
             n == Len(accepted) + 1
  <1>2. /\ IsSequence(accepted') /\ DOMAIN accepted' = DOMAIN accepted \cup {n} /\ n \notin DOMAIN accepted
        /\ \A i \in DOMAIN accepted : accepted'[i] = accepted[i]
        /\ accepted'[n] = m
    BY <1>0, AppendSequence DEF SendAccepted, SentInv
  <1>3. n \in Nat /\ \A i \in DOMAIN accepted : i \in Nat /\ i < n
    BY <1>0, SequenceFacts DEF SentInv
  <1>4. /\ DOMAIN pending' = DOMAIN pending /\ pending'[c] = None /\ m # None
        /\ \A d \in DOMAIN pending : d # c => pending'[d] = pending[d]
    BY DEF SendAccepted, NodeTypes
  <1>5. None.type # "TaskRequest" /\ \A t : TaskRequest(t).type = "TaskRequest" /\ TaskRequest(t).task = t
    BY DEF None, TaskRequest
  <1> HIDE DEF m, n
  <1>6. Coordinator \in DOMAIN pending
    BY <1>0, CoordinatorAssumption DEF SentInv
  <1>7. \A d \in DOMAIN pending' : pending'[d].type = "TaskRequest" => d = Coordinator
    BY <1>0, <1>4, <1>5 DEF SentInv
  <1>8. next \in Nat
    BY <1>0, SequenceFacts DEF DispatchInv, Complete
  <1>9. CASE c = Coordinator
    <2>1. next >= 2 /\ m = TaskRequest(dispatches[next - 1])
      BY <1>0, <1>4, <1>9 DEF SentInv, m
    <2>2. Queued = next - 2 /\ Queued' = next - 1 /\ Queued \in Nat /\ Queued' = Queued + 1
      BY <1>4, <1>8, <1>9, <2>1 DEF Queued, m
    <2>3. m.type = "TaskRequest" /\ m.task = dispatches[Queued']
      BY <1>5, <2>1, <2>2
    <2>4. next - 1 \in DOMAIN dispatches /\ Queued' \in DOMAIN dispatches
      BY <1>0, <2>1, <2>2, SequenceFacts DEF DispatchInv, Complete
    <2>5. \A i \in DOMAIN accepted' : IsSent(i)' => \E k \in 1..Queued' : accepted'[i].task = dispatches[k]
      BY <1>0, <1>2, <2>2, <2>3 DEF SentInv, IsSent
    <2>6. \A k \in 1..Queued' : \E i \in DOMAIN accepted' : IsSent(i)' /\ accepted'[i].task = dispatches[k]
      BY <1>0, <1>2, <2>2, <2>3 DEF SentInv, IsSent
    <2>7. ASSUME NEW i \in DOMAIN accepted, IsSent(i)
          PROVE  accepted[i].task.op.id < m.task.op.id
      <3>1. PICK k \in 1..Queued : accepted[i].task = dispatches[k]
        BY <1>0, <2>7 DEF SentInv
      <3>2. k \in DOMAIN dispatches /\ k < Queued'
        BY <2>2, <2>4, <1>0, SequenceFacts DEF DispatchInv, Complete
      <3>3. dispatches[k].op.id < dispatches[Queued'].op.id
        BY <1>0, <2>4, <3>2 DEF DispatchInv, Complete
      <3> QED BY <2>3, <3>1, <3>3
    <2>8. ASSUME NEW i \in DOMAIN accepted', NEW j \in DOMAIN accepted', IsSent(i)', IsSent(j)', i < j
          PROVE  accepted'[i].task.op.id < accepted'[j].task.op.id
      <3>1. i \in DOMAIN accepted /\ IsSent(i)
        BY <1>2, <1>3, <2>8 DEF IsSent
      <3>2. CASE j = n
        BY <3>1, <3>2, <2>7, <1>2
      <3>3. CASE j # n
        BY <3>1, <3>3, <2>8, <1>0, <1>2 DEF SentInv, IsSent
      <3> QED BY <3>2, <3>3
    <2> QED BY <1>0, <1>1, <1>2, <1>4, <1>7, <1>9, <2>5, <2>6, <2>8 DEF RouterInv, SentInv
  <1>10. CASE c # Coordinator
    <2>1. m.type # "TaskRequest"
      BY <1>0, <1>10 DEF SentInv, m
    <2>2. pending'[Coordinator] = pending[Coordinator]
      BY <1>4, <1>6, <1>10
    <2>3. Queued' = Queued
      BY <2>2 DEF Queued, None
    <2>4. \A i \in DOMAIN accepted' : IsSent(i)' => i \in DOMAIN accepted /\ IsSent(i)
      BY <1>2, <2>1 DEF IsSent
    <2>5. \A i \in DOMAIN accepted : IsSent(i) => IsSent(i)'
      BY <1>2 DEF IsSent
    <2>6. \A i \in DOMAIN accepted' : IsSent(i)' => \E k \in 1..Queued' : accepted'[i].task = dispatches[k]
      BY <1>0, <1>2, <2>3, <2>4 DEF SentInv
    <2>7. \A k \in 1..Queued' : \E i \in DOMAIN accepted' : IsSent(i)' /\ accepted'[i].task = dispatches[k]
      BY <1>0, <1>2, <2>3, <2>5 DEF SentInv
    <2>8. \A i, j \in DOMAIN accepted' :
             IsSent(i)' /\ IsSent(j)' /\ i < j => accepted'[i].task.op.id < accepted'[j].task.op.id
      BY <1>0, <1>2, <2>4 DEF SentInv
    <2>9. pending'[Coordinator] # None' =>
             next' >= 2 /\ pending'[Coordinator] = TaskRequest(dispatches[next - 1])
      BY <1>0, <2>2 DEF SentInv, None
    <2> QED BY <1>0, <1>1, <1>2, <1>4, <1>7, <2>6, <2>7, <2>8, <2>9 DEF RouterInv, SentInv, TaskRequest
  <1> QED BY <1>9, <1>10

LEMMA RouterStepInv ==
    ASSUME ClusterInv, RouterInv, [Next]_vars
    PROVE  RouterInv'
  <1>0. DispatchInv /\ SentInv /\ NodeTypes /\ ListTypes
    BY DEF RouterInv, ClusterInv, NodeInv, ListInv
  <1>1. DOMAIN pending = Peers \cup Callers /\ Coordinator \in DOMAIN pending
    BY <1>0, CoordinatorAssumption DEF SentInv
  <1>2. None.type # "TaskRequest" /\ None' = None
    BY DEF None
  <1>3. CASE NodeNext /\ Meanwhile
    <2>0. UNCHANGED <<stage, workers, ops, dispatches, next>>
      BY <1>3 DEF Meanwhile
    <2>1. DispatchInv'
      BY <1>0, <2>0, DispatchUnchanged
    <2>2. ASSUME NEW p \in Peers, Beat(p) PROVE SentInv'
      <3>1. p # Coordinator /\ p \in DOMAIN pending
        BY <1>1, CoordinatorAssumption
      <3>2. pending' = [pending EXCEPT ![p] = Heartbeat(worker_profile(p))] /\ accepted' = accepted
        BY <2>2 DEF Beat, offload_task
      <3>3. Heartbeat(worker_profile(p)).type # "TaskRequest"
        BY DEF Heartbeat
      <3>4. DOMAIN pending' = DOMAIN pending /\ pending'[Coordinator] = pending[Coordinator]
            /\ \A c \in DOMAIN pending : pending'[c].type = "TaskRequest" => pending'[c] = pending[c]
        BY <3>1, <3>2, <3>3, <1>1
      <3> QED BY <1>0, <2>0, <3>2, <3>4, SentUnchanged
    <2>3. ASSUME NEW p \in Peers, Crash(p) PROVE SentInv'
      <3>1. p # Coordinator /\ p \in DOMAIN pending
        BY <1>1, CoordinatorAssumption
      <3>2. pending' = [pending EXCEPT ![p] = None] /\ accepted' = accepted
        BY <2>3 DEF Crash
      <3>3. DOMAIN pending' = DOMAIN pending /\ pending'[Coordinator] = pending[Coordinator]
            /\ \A c \in DOMAIN pending : pending'[c].type = "TaskRequest" => pending'[c] = pending[c]
        BY <3>1, <3>2, <1>1, <1>2
      <3> QED BY <1>0, <2>0, <3>2, <3>3, SentUnchanged
    <2>4. ASSUME NEW p \in Peers, NEW w \in Discovered, register_peer(p, w) PROVE SentInv'
      BY <1>0, <2>0, <2>4, SentUnchanged DEF register_peer
    <2>5. ASSUME NEW c \in DOMAIN pending, SendAccepted(c) PROVE RouterInv'
      BY <1>0, <2>0, <2>5, SendAcceptedRouterInv DEF RouterInv
    <2>6. CASE Receive
      <3>1. SentInv'
        BY <1>0, <2>0, <2>6, SentUnchanged DEF Receive
      <3> QED BY <2>1, <3>1 DEF RouterInv
    <2>7. CASE LoopEnds
      <3>1. SentInv'
        BY <1>0, <2>0, <2>7, SentUnchanged DEF LoopEnds
      <3> QED BY <2>1, <3>1 DEF RouterInv
    <2> QED BY <1>3, <2>1, <2>2, <2>3, <2>4, <2>5, <2>6, <2>7 DEF NodeNext, RouterInv
  <1>4. CASE Drop
    <2>1. UNCHANGED <<pending, accepted, stage, workers, ops, dispatches, next>>
      BY <1>4 DEF Drop, DropNode, coordinatorVars
    <2> QED BY <1>0, <2>1, DispatchUnchanged, SentUnchanged DEF RouterInv
  <1>5. CASE BeginList \/ EndList \/ ScheduleFails
    <2>1. /\ UNCHANGED <<pending, accepted, workers, ops, dispatches, next>>
          /\ stage # "offloading"
      BY <1>5 DEF BeginList, EndList, ScheduleFails, nodeVars
    <2> QED BY <1>0, <2>1, DispatchUnchanged, SentUnchanged DEF RouterInv
  <1>6. ASSUME NEW p \in Peers, ReadShard(p) PROVE RouterInv'
    <2>1. /\ UNCHANGED <<pending, accepted, stage, ops, dispatches, next>>
          /\ stage = "reading"
      BY <1>6 DEF ReadShard, nodeVars
    <2>2. dispatches = <<>> /\ DOMAIN <<>> = {}
      BY <1>0, <2>1 DEF DispatchInv
    <2>3. BestWorkerChosen'
      BY <2>1, <2>2 DEF BestWorkerChosen
    <2>4. DispatchInv'
      BY <1>0, <2>1, <2>3 DEF DispatchInv, Complete, MayLeave
    <2> QED BY <1>0, <2>1, <2>4, SentUnchanged DEF RouterInv
  <1>7. ASSUME NEW kinds \in BoundedSeq(Kinds, MaxOps), Schedule(kinds) PROVE RouterInv'
    <2>1. PICK n \in Nat : DOMAIN kinds = 1..n
      BY CoordinatorAssumption DEF BoundedSeq, SeqOf
    <2>2. /\ ops' = Module(kinds) /\ dispatches' = schedule_global_ops(global_ops(ops'), workers)
          /\ stage = "listed" /\ workers # <<>>
          /\ UNCHANGED <<pending, accepted, workers, next>>
      BY <1>7 DEF Schedule, nodeVars
    <2>3. /\ Complete(dispatches', ops')
          /\ \A k \in DOMAIN dispatches' : dispatches'[k].target_peer_id = BestOf(workers)[Len(workers)].peer_id
      BY <2>1, <2>2, ScheduleComplete
    <2>4. PICK i \in DOMAIN workers :
             BestOf(workers)[Len(workers)] = workers[i] /\ FirstBest(workers, i, Len(workers))
      BY <1>0, <2>2, BestOfIsBest DEF ListTypes
    <2>5. DOMAIN workers = 1..Len(workers)
      BY <1>0, SequenceFacts DEF ListTypes
    <2>6. BestWorkerChosen'
      BY <2>2, <2>3, <2>4, <2>5 DEF BestWorkerChosen, FirstBest
    <2>7. next = 1 /\ dispatches = <<>> /\ Len(dispatches) = 0
      BY <1>0, <2>2 DEF DispatchInv
    <2>8. Len(dispatches') \in Nat /\ next \in 1..(Len(dispatches') + 1)
      BY <2>3, <2>7, SequenceFacts DEF Complete
    <2>9. DispatchInv'
      BY <1>7, <2>2, <2>3, <2>6, <2>8 DEF DispatchInv, Schedule
    <2>10. pending[Coordinator] = None
      BY <1>0, <2>7 DEF SentInv
    <2>11. Queued = 0 /\ Queued' = 0
      BY <1>2, <2>2, <2>7, <2>10 DEF Queued
    <2>12. \A m \in DOMAIN accepted : ~IsSent(m) /\ ~IsSent(m)'
      BY <1>0, <2>2, <2>11 DEF SentInv, IsSent
    <2>13. SentInv'
      BY <1>0, <1>2, <2>2, <2>10, <2>11, <2>12 DEF SentInv
    <2> QED BY <2>9, <2>13 DEF RouterInv
  <1>8. CASE OffloadNext
    <2>1. /\ stage' = stage /\ next' = next + 1 /\ next <= Len(dispatches)
          /\ UNCHANGED <<accepted, workers, ops, dispatches>>
          /\ pending[Coordinator] = None
          /\ pending' = [pending EXCEPT ![Coordinator] = TaskRequest(dispatches[next])]
      BY <1>8 DEF OffloadNext, offload_task
    <2>2. Len(dispatches) \in Nat /\ next \in Nat /\ next >= 1
      BY <1>0, SequenceFacts DEF DispatchInv, Complete
    <2>3. DispatchInv'
      BY <1>0, <2>1, <2>2 DEF DispatchInv, Complete, MayLeave, BestWorkerChosen
    <2>4. DOMAIN pending' = DOMAIN pending /\ pending'[Coordinator] = TaskRequest(dispatches[next])
          /\ \A c \in DOMAIN pending : c # Coordinator => pending'[c] = pending[c]
      BY <1>1, <2>1
    <2>5. TaskRequest(dispatches[next]) # None
      BY DEF TaskRequest, None
    <2>6. Queued = next - 1 /\ Queued' = next - 1
      BY <1>2, <2>1, <2>2, <2>4, <2>5 DEF Queued
    <2>7. \A i \in DOMAIN accepted : IsSent(i)' <=> IsSent(i)
      BY <2>1 DEF IsSent
    <2>8. \A c \in DOMAIN pending' : pending'[c].type = "TaskRequest" => c = Coordinator
      BY <1>0, <2>4 DEF SentInv
    <2>9. next' >= 2 /\ pending'[Coordinator] = TaskRequest(dispatches'[next' - 1])
      <3>1. next' - 1 = next
        BY <2>1, <2>2
      <3> QED BY <3>1, <2>1, <2>2, <2>4
    <2>10. Queued' = Queued
      BY <2>6
    <2>11. SentInv'
      BY <1>0, <2>1, <2>4, <2>7, <2>8, <2>9, <2>10 DEF SentInv
    <2> QED BY <2>3, <2>11 DEF RouterInv
  <1>9. CASE UNCHANGED vars
    <2>1. UNCHANGED <<pending, accepted, stage, workers, ops, dispatches, next>>
      BY <1>9 DEF vars, nodeVars, coordinatorVars
    <2> QED BY <1>0, <2>1, DispatchUnchanged, SentUnchanged DEF RouterInv
  <1> QED BY <1>3, <1>4, <1>5, <1>6, <1>7, <1>8, <1>9 DEF Next

LEMMA RouterInvariant == Spec => []RouterInv
  <1> QED BY RouterInitInv, RouterStepInv, ClusterInvariant, PTL DEF Spec

(* Of a module of any length, split and offloaded while other senders use  *)
(* the channel, exactly the operations that may leave the machine enter    *)
(* the network queue: none twice, in the order of the module, all of them  *)
(* in the end.                                                             *)
THEOREM SplitTheorem == Spec => []SplitSound
  <1>1. ASSUME RouterInv PROVE SplitSound
    <2>0. DispatchInv /\ SentInv
      BY <1>1 DEF RouterInv
    <2>1. DOMAIN dispatches = 1..Len(dispatches) /\ Len(dispatches) \in Nat /\ next \in Nat
      BY <2>0, SequenceFacts DEF DispatchInv, Complete
    <2>2. Queued \in Int /\ Queued <= Len(dispatches)
      BY <2>0, <2>1 DEF Queued, DispatchInv
    <2>3. \A i \in DOMAIN accepted : IsSent(i) => accepted[i].task.op.id \in MayLeave(ops)
      BY <2>0, <2>1, <2>2 DEF SentInv, DispatchInv, Complete
    <2>4. ASSUME next > Len(dispatches), pending[Coordinator] = None, NEW k \in MayLeave(ops)
          PROVE  \E i \in DOMAIN accepted : IsSent(i) /\ accepted[i].task.op.id = k
      <3>1. PICK d \in DOMAIN dispatches : dispatches[d].op.id = k
        BY <2>0, <2>4 DEF DispatchInv, Complete
      <3>2. Queued = Len(dispatches)
        BY <2>0, <2>1, <2>4 DEF Queued, DispatchInv
      <3>3. d \in 1..Queued
        BY <3>1, <3>2, <2>1
      <3> QED BY <2>0, <3>1, <3>3 DEF SentInv
    <2>5. \A i, j \in DOMAIN accepted :
             IsSent(i) /\ IsSent(j) /\ i < j => accepted[i].task.op.id < accepted[j].task.op.id
      BY <2>0 DEF SentInv
    <2> QED BY <2>3, <2>4, <2>5 DEF SplitSound, IsSent, MayLeave
  <1> QED BY <1>1, RouterInvariant, PTL

(* For any number of workers and whatever figures they report: every       *)
(* dispatch goes to the first of the workers none of which scores better.  *)
THEOREM BestWorker == Spec => []BestWorkerChosen
  <1>1. RouterInv => BestWorkerChosen
    BY DEF RouterInv, DispatchInv
  <1> QED BY <1>1, RouterInvariant, PTL
=============================================================================
