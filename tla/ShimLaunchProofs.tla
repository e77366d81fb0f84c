-------------------------- MODULE ShimLaunchProofs --------------------------
(***************************************************************************)
(* For any number of threads, streams, launches, modules and functions:    *)
(* the synchronized flag tells the truth, a launch is pending at most once *)
(* and in its place, and a function handle stands for one kernel.  Both    *)
(* registries draw a number in one step and use it in another; the         *)
(* invariants say that a number drawn is in nobody else's hands.           *)
(***************************************************************************)
EXTENDS ShimLaunch, SequenceTheorems, TLAPS

-----------------------------------------------------------------------------
\* Streams.

KernelLaunches == [number : Nat, kernel_id : KernelIds]
StreamContexts == [synchronized : BOOLEAN, pending_kernels : Seq(KernelLaunches)]

StreamTypes ==
    /\ STREAM_COUNTER \in Nat \ {0}
    /\ DOMAIN STREAM_TABLE \subseteq Nat
    /\ STREAM_TABLE \in [DOMAIN STREAM_TABLE -> StreamContexts]
    /\ creating \in [Threads -> Nat]
    /\ launches \in Nat
    /\ drained \subseteq Nat

\* A handle is drawn once: those in the table and those about to be inserted
\* lie below the counter, and the latter are not in use.
HandlesFresh ==
    /\ \A h \in DOMAIN STREAM_TABLE : h < STREAM_COUNTER
    /\ \A t \in Threads :
          /\ creating[t] < STREAM_COUNTER
          /\ creating[t] # 0 =>
                /\ creating[t] \notin DOMAIN STREAM_TABLE
                /\ \A u \in Threads : u # t => creating[u] # creating[t]

\* The numbers of the launches that are pending or drained have been given out.
NumbersGiven ==
    /\ \A h \in DOMAIN STREAM_TABLE :
          \A i \in DOMAIN STREAM_TABLE[h].pending_kernels :
             STREAM_TABLE[h].pending_kernels[i].number <= launches
    /\ \A n \in drained : n <= launches

StreamInv == StreamTypes /\ HandlesFresh /\ NumbersGiven /\ FlagIsTrue /\ AtMostOnce

\* The invariant speaks of the stream variables only.
LEMMA StreamInvStutters ==
    ASSUME StreamInv, UNCHANGED streamVars
    PROVE  StreamInv'
  BY DEF StreamInv, StreamTypes, HandlesFresh, NumbersGiven, FlagIsTrue, AtMostOnce, Numbers, streamVars

LEMMA StreamInitInv == StreamInit => StreamInv
  <1> SUFFICES ASSUME StreamInit PROVE StreamInv
    OBVIOUS
  <1>1. DOMAIN STREAM_TABLE = {} /\ STREAM_TABLE \in [DOMAIN STREAM_TABLE -> StreamContexts]
    BY DEF StreamInit
  <1>2. StreamTypes /\ HandlesFresh
    BY <1>1 DEF StreamInit, StreamTypes, HandlesFresh
  <1> QED BY <1>1, <1>2 DEF StreamInit, StreamInv, NumbersGiven, FlagIsTrue, AtMostOnce

\* The queue of a stream, and what appending a launch to it does.
LEMMA QueueType ==
    ASSUME StreamTypes, NEW h \in DOMAIN STREAM_TABLE
    PROVE  /\ STREAM_TABLE[h].pending_kernels \in Seq(KernelLaunches)
           /\ STREAM_TABLE[h].synchronized \in BOOLEAN
           /\ \A i \in DOMAIN STREAM_TABLE[h].pending_kernels :
                 STREAM_TABLE[h].pending_kernels[i].number \in Nat
  <1>1. STREAM_TABLE[h] \in StreamContexts
    BY DEF StreamTypes
  <1>2. STREAM_TABLE[h].pending_kernels \in Seq(KernelLaunches) /\ STREAM_TABLE[h].synchronized \in BOOLEAN
    BY <1>1 DEF StreamContexts
  <1>3. \A i \in DOMAIN STREAM_TABLE[h].pending_kernels :
           STREAM_TABLE[h].pending_kernels[i] \in KernelLaunches
    BY <1>2, ElementOfSeq
  <1> QED BY <1>2, <1>3 DEF KernelLaunches

LEMMA EmptyStreamType ==
    /\ EmptyStream \in StreamContexts
    /\ EmptyStream.pending_kernels = <<>>
    /\ EmptyStream.synchronized = TRUE
  BY DEF EmptyStream, StreamContexts

\* Any step after which every stream of the table was there before, with the
\* queue it had, or has an empty queue, and which gives out no number.
LEMMA NothingQueued ==
    ASSUME StreamInv, StreamTypes', launches' = launches,
           \A h \in DOMAIN STREAM_TABLE' :
              \/ STREAM_TABLE'[h] = EmptyStream
              \/ h \in DOMAIN STREAM_TABLE /\ STREAM_TABLE'[h] = STREAM_TABLE[h],
           \A n \in drained' : n \in drained \/ \E g \in DOMAIN STREAM_TABLE :
                                  /\ n \in Numbers(STREAM_TABLE[g].pending_kernels)
                                  /\ g \in DOMAIN STREAM_TABLE' => STREAM_TABLE'[g] = EmptyStream
    PROVE  NumbersGiven' /\ FlagIsTrue' /\ AtMostOnce'
  <1>0. StreamTypes /\ NumbersGiven /\ FlagIsTrue /\ AtMostOnce
    BY DEF StreamInv
  <1>1. FlagIsTrue'
    BY <1>0, EmptyStreamType DEF FlagIsTrue
  <1>2. NumbersGiven'
    <2>1. \A h \in DOMAIN STREAM_TABLE' : \A i \in DOMAIN STREAM_TABLE'[h].pending_kernels :
             STREAM_TABLE'[h].pending_kernels[i].number <= launches
      BY <1>0, EmptyStreamType DEF NumbersGiven
    <2>2. \A n \in drained' : n <= launches
      BY <1>0 DEF NumbersGiven, Numbers
    <2> QED BY <2>1, <2>2 DEF NumbersGiven
  <1>3. AtMostOnce'
    <2> SUFFICES ASSUME NEW g \in DOMAIN STREAM_TABLE', NEW h \in DOMAIN STREAM_TABLE',
                        NEW i \in DOMAIN STREAM_TABLE'[g].pending_kernels
                 PROVE  /\ STREAM_TABLE'[g].pending_kernels[i].number \notin drained'
                        /\ \A j \in DOMAIN STREAM_TABLE'[h].pending_kernels :
                              STREAM_TABLE'[g].pending_kernels[i].number
                                = STREAM_TABLE'[h].pending_kernels[j].number => g = h /\ i = j
      BY DEF AtMostOnce, Numbers
    <2>1. g \in DOMAIN STREAM_TABLE /\ STREAM_TABLE'[g] = STREAM_TABLE[g]
      BY EmptyStreamType
    <2>2. STREAM_TABLE'[g] # EmptyStream
      BY EmptyStreamType
    <2>3. STREAM_TABLE[g].pending_kernels[i].number \notin drained
      BY <1>0, <2>1 DEF AtMostOnce, Numbers
    <2>4. \A e \in DOMAIN STREAM_TABLE : \A j \in DOMAIN STREAM_TABLE[e].pending_kernels :
             STREAM_TABLE[g].pending_kernels[i].number = STREAM_TABLE[e].pending_kernels[j].number
                => g = e /\ i = j
      BY <1>0, <2>1 DEF AtMostOnce
    <2>5. STREAM_TABLE[g].pending_kernels[i].number \notin drained'
      BY <2>1, <2>2, <2>3, <2>4 DEF Numbers
    <2> QED BY <2>1, <2>4, <2>5, EmptyStreamType
  <1> QED BY <1>1, <1>2, <1>3

LEMMA CreateFetchInv ==
    ASSUME StreamInv, NEW t \in Threads, CreateFetch(t)
    PROVE  StreamInv'
  <1>0. StreamTypes /\ HandlesFresh
    BY DEF StreamInv
  <1>1. \A u \in Threads : creating'[u] = IF u = t THEN STREAM_COUNTER ELSE creating[u]
    BY <1>0 DEF CreateFetch, StreamTypes
  <1>2. StreamTypes'
    BY <1>0 DEF CreateFetch, StreamTypes
  <1>3. HandlesFresh'
    <2>1. STREAM_COUNTER \in Nat \ {0} /\ DOMAIN STREAM_TABLE \subseteq Nat /\ STREAM_COUNTER' = STREAM_COUNTER + 1
             /\ STREAM_TABLE' = STREAM_TABLE /\ \A u \in Threads : creating[u] \in Nat
      BY <1>0 DEF CreateFetch, StreamTypes
    <2>2. \A h \in DOMAIN STREAM_TABLE : h < STREAM_COUNTER
      BY <1>0 DEF HandlesFresh
    <2>3. \A u \in Threads : creating'[u] < STREAM_COUNTER'
      BY <1>0, <1>1, <2>1 DEF HandlesFresh
    <2>4. \A u \in Threads : creating'[u] # 0 => creating'[u] \notin DOMAIN STREAM_TABLE
      BY <1>0, <1>1, <2>1, <2>2 DEF HandlesFresh
    <2>5. \A u, v \in Threads : creating'[u] # 0 /\ v # u => creating'[v] # creating'[u]
      BY <1>0, <1>1, <2>1 DEF HandlesFresh
    <2> QED BY <2>1, <2>2, <2>3, <2>4, <2>5 DEF HandlesFresh
  <1>4. NumbersGiven' /\ FlagIsTrue' /\ AtMostOnce'
    BY DEF StreamInv, CreateFetch, NumbersGiven, FlagIsTrue, AtMostOnce, Numbers
  <1> QED BY <1>2, <1>3, <1>4 DEF StreamInv

LEMMA CreateInsertInv ==
    ASSUME StreamInv, NEW t \in Threads, CreateInsert(t)
    PROVE  StreamInv'
  <1>0. StreamTypes /\ HandlesFresh
    BY DEF StreamInv
  <1>1. /\ DOMAIN STREAM_TABLE' = DOMAIN STREAM_TABLE \cup {creating[t]}
        /\ STREAM_TABLE'[creating[t]] = EmptyStream
        /\ \A h \in DOMAIN STREAM_TABLE : h # creating[t] => STREAM_TABLE'[h] = STREAM_TABLE[h]
    BY DEF CreateInsert
  <1>2. \A u \in Threads : creating'[u] = IF u = t THEN 0 ELSE creating[u]
    BY <1>0 DEF CreateInsert, StreamTypes
  <1>3. StreamTypes'
    <2>1. DOMAIN STREAM_TABLE' \subseteq Nat
      BY <1>0, <1>1 DEF StreamTypes
    <2>2. STREAM_TABLE' = [h \in DOMAIN STREAM_TABLE' |-> STREAM_TABLE'[h]]
      BY <1>1 DEF CreateInsert
    <2>3. \A h \in DOMAIN STREAM_TABLE' : STREAM_TABLE'[h] \in StreamContexts
      BY <1>0, <1>1, EmptyStreamType DEF StreamTypes
    <2>4. STREAM_TABLE' \in [DOMAIN STREAM_TABLE' -> StreamContexts]
      BY <2>2, <2>3
    <2> QED BY <1>0, <2>1, <2>4 DEF CreateInsert, StreamTypes
  <1>4. HandlesFresh'
    <2>1. \A h \in DOMAIN STREAM_TABLE' : h < STREAM_COUNTER
      BY <1>0, <1>1 DEF HandlesFresh
    <2>2. \A u \in Threads : creating'[u] < STREAM_COUNTER
      BY <1>0, <1>2 DEF HandlesFresh, StreamTypes
    <2>3. \A u \in Threads : creating'[u] # 0 => u # t /\ creating'[u] = creating[u]
      BY <1>2
    <2>4. \A u \in Threads : creating'[u] # 0 => creating'[u] # creating[t]
      BY <1>0, <2>3 DEF HandlesFresh
    <2>5. \A u \in Threads : creating'[u] # 0 => creating'[u] \notin DOMAIN STREAM_TABLE'
      BY <1>0, <1>1, <2>3, <2>4 DEF HandlesFresh
    <2>6. \A u, v \in Threads : creating'[u] # 0 /\ v # u => creating'[v] # creating'[u]
      BY <1>0, <1>2, <2>3 DEF HandlesFresh
    <2> QED BY <2>1, <2>2, <2>5, <2>6 DEF HandlesFresh, CreateInsert
  <1>5. NumbersGiven' /\ FlagIsTrue' /\ AtMostOnce'
    BY <1>1, <1>3, NothingQueued DEF CreateInsert
  <1> QED BY <1>3, <1>4, <1>5 DEF StreamInv

LEMMA DestroyInv ==
    ASSUME StreamInv, NEW t \in Threads, NEW h \in Handles, Destroy(t, h)
    PROVE  StreamInv'
  <1>0. StreamTypes /\ HandlesFresh
    BY DEF StreamInv
  <1>1. STREAM_TABLE' = [g \in DOMAIN STREAM_TABLE \ {h} |-> STREAM_TABLE[g]]
    BY DEF Destroy, Restrict
  <1>2. StreamTypes'
    BY <1>0, <1>1 DEF Destroy, StreamTypes
  <1>3. HandlesFresh'
    BY <1>0, <1>1 DEF HandlesFresh, Destroy
  <1>4. NumbersGiven' /\ FlagIsTrue' /\ AtMostOnce'
    BY <1>1, <1>2, NothingQueued DEF Destroy
  <1> QED BY <1>2, <1>3, <1>4 DEF StreamInv

LEMMA SynchronizeInv ==
    ASSUME StreamInv, NEW t \in Threads, NEW h \in Handles, Synchronize(t, h)
    PROVE  StreamInv'
  <1>0. StreamTypes /\ HandlesFresh
    BY DEF StreamInv
  <1>1. /\ DOMAIN STREAM_TABLE' = DOMAIN STREAM_TABLE
        /\ \A g \in DOMAIN STREAM_TABLE :
              STREAM_TABLE'[g] = IF g = h THEN EmptyStream ELSE STREAM_TABLE[g]
    BY <1>0 DEF Synchronize, StreamTypes
  <1>2. StreamTypes'
    <2>1. STREAM_TABLE' \in [DOMAIN STREAM_TABLE' -> StreamContexts]
      BY <1>0, EmptyStreamType DEF Synchronize, StreamTypes
    <2>2. drained' \subseteq Nat
      BY <1>0, QueueType DEF Synchronize, StreamTypes, Numbers
    <2> QED BY <1>0, <1>1, <2>1, <2>2 DEF Synchronize, StreamTypes
  <1>3. HandlesFresh'
    BY <1>0, <1>1 DEF HandlesFresh, Synchronize
  <1>4. NumbersGiven' /\ FlagIsTrue' /\ AtMostOnce'
    BY <1>1, <1>2, NothingQueued DEF Synchronize
  <1> QED BY <1>2, <1>3, <1>4 DEF StreamInv

\* A queue with one launch more.
LEMMA AppendQueue ==
    ASSUME NEW q \in Seq(KernelLaunches), NEW x \in KernelLaunches
    PROVE  /\ Append(q, x) \in Seq(KernelLaunches)
           /\ Append(q, x) # <<>>
           /\ DOMAIN Append(q, x) = DOMAIN q \cup {Len(q) + 1}
           /\ \A i \in DOMAIN q : Append(q, x)[i] = q[i] /\ i # Len(q) + 1
           /\ Append(q, x)[Len(q) + 1] = x
           /\ IsPrefix(q, Append(q, x))
  <1>1. /\ Append(q, x) \in Seq(KernelLaunches) /\ Append(q, x) # <<>>
        /\ DOMAIN Append(q, x) = DOMAIN q \cup {Len(q) + 1}
        /\ \A i \in DOMAIN q : Append(q, x)[i] = q[i] /\ i # Len(q) + 1
        /\ Append(q, x)[Len(q) + 1] = x
    BY AppendProperties, LenProperties
  <1>2. IsPrefix(q, Append(q, x))
    BY DEF IsPrefix
  <1> QED BY <1>1, <1>2

\* What a launch does to the table.
LEMMA LaunchTable ==
    ASSUME StreamTypes, NEW t \in Threads, NEW h \in Handles, NEW f \in KernelIds, Launch(t, h, f)
    PROVE  LET q == STREAM_TABLE[h].pending_kernels
               x == KernelLaunch(launches + 1, f)
           IN  /\ x \in KernelLaunches /\ x.number = launches + 1
               /\ DOMAIN STREAM_TABLE' = DOMAIN STREAM_TABLE
               /\ STREAM_TABLE' \in [DOMAIN STREAM_TABLE -> StreamContexts]
               /\ STREAM_TABLE'[h].pending_kernels = Append(q, x)
               /\ STREAM_TABLE'[h].synchronized = FALSE
               /\ \A g \in DOMAIN STREAM_TABLE : g # h => STREAM_TABLE'[g] = STREAM_TABLE[g]
  <1> DEFINE q == STREAM_TABLE[h].pending_kernels
             x == KernelLaunch(launches + 1, f)
             s == [synchronized |-> FALSE, pending_kernels |-> Append(q, x)]
  <1>1. x \in KernelLaunches /\ x.number = launches + 1
    BY DEF KernelLaunch, KernelLaunches, StreamTypes
  <1>2. STREAM_TABLE' = [STREAM_TABLE EXCEPT ![h] = s] /\ h \in DOMAIN STREAM_TABLE
    BY DEF Launch
  <1>3. Append(q, x) \in Seq(KernelLaunches)
    BY <1>1, <1>2, QueueType, AppendQueue
  <1>4. s \in StreamContexts /\ s.pending_kernels = Append(q, x) /\ s.synchronized = FALSE
    BY <1>3 DEF StreamContexts
  <1> HIDE DEF s, q, x
  <1>5. STREAM_TABLE \in [DOMAIN STREAM_TABLE -> StreamContexts]
    BY DEF StreamTypes
  <1>6. STREAM_TABLE'[h] = s
    BY <1>2, <1>5
  <1>7. /\ DOMAIN STREAM_TABLE' = DOMAIN STREAM_TABLE
        /\ STREAM_TABLE' \in [DOMAIN STREAM_TABLE -> StreamContexts]
        /\ \A g \in DOMAIN STREAM_TABLE : g # h => STREAM_TABLE'[g] = STREAM_TABLE[g]
    BY <1>2, <1>4, <1>5
  <1> QED BY <1>1, <1>4, <1>6, <1>7 DEF q, x

\* A launch appends a number that nobody has: the largest.
LEMMA LaunchInv ==
    ASSUME StreamInv, NEW t \in Threads, NEW h \in Handles, NEW f \in KernelIds, Launch(t, h, f)
    PROVE  StreamInv'
  <1> DEFINE q == STREAM_TABLE[h].pending_kernels
             x == KernelLaunch(launches + 1, f)
             P(g) == STREAM_TABLE'[g].pending_kernels
  <1>0. StreamTypes /\ HandlesFresh /\ NumbersGiven /\ FlagIsTrue /\ AtMostOnce
    BY DEF StreamInv
  <1>1. /\ x \in KernelLaunches /\ x.number = launches + 1
        /\ DOMAIN STREAM_TABLE' = DOMAIN STREAM_TABLE
        /\ STREAM_TABLE' \in [DOMAIN STREAM_TABLE -> StreamContexts]
        /\ P(h) = Append(q, x)
        /\ STREAM_TABLE'[h].synchronized = FALSE
        /\ \A g \in DOMAIN STREAM_TABLE : g # h => STREAM_TABLE'[g] = STREAM_TABLE[g]
    BY <1>0, LaunchTable
  <1>2. h \in DOMAIN STREAM_TABLE /\ q \in Seq(KernelLaunches)
    BY <1>0, QueueType DEF Launch
  <1>3. /\ P(h) # <<>> /\ DOMAIN P(h) = DOMAIN q \cup {Len(q) + 1}
        /\ \A i \in DOMAIN q : P(h)[i] = q[i] /\ i # Len(q) + 1
        /\ P(h)[Len(q) + 1] = x
    BY <1>1, <1>2, AppendQueue
  <1> HIDE DEF x
  <1>4. StreamTypes'
    BY <1>0, <1>1 DEF StreamTypes, Launch
  <1>5. HandlesFresh'
    BY <1>0, <1>1 DEF HandlesFresh, Launch
  <1>6. FlagIsTrue'
    BY <1>0, <1>1, <1>3 DEF FlagIsTrue
  <1>a. launches \in Nat /\ launches' = launches + 1 /\ drained' = drained /\ drained \subseteq Nat
    BY <1>0 DEF StreamTypes, Launch
  <1>b. \A g \in DOMAIN STREAM_TABLE : \A i \in DOMAIN STREAM_TABLE[g].pending_kernels :
           /\ STREAM_TABLE[g].pending_kernels[i].number \in Nat
           /\ STREAM_TABLE[g].pending_kernels[i].number <= launches
    BY <1>0, QueueType DEF NumbersGiven
  <1>c. \A g \in DOMAIN STREAM_TABLE : \A i \in DOMAIN P(g) :
           \/ /\ i \in DOMAIN STREAM_TABLE[g].pending_kernels
              /\ P(g)[i] = STREAM_TABLE[g].pending_kernels[i]
              /\ ~(g = h /\ i = Len(q) + 1)
           \/ g = h /\ i = Len(q) + 1 /\ P(g)[i].number = launches + 1
    BY <1>1, <1>3
  <1> HIDE DEF P
  <1>7. NumbersGiven'
    <2>1. \A g \in DOMAIN STREAM_TABLE : \A i \in DOMAIN P(g) : P(g)[i].number <= launches + 1
      BY <1>a, <1>b, <1>c
    <2>2. \A n \in drained : n <= launches + 1
      BY <1>0, <1>a DEF NumbersGiven
    <2> QED BY <1>1, <1>a, <2>1, <2>2 DEF NumbersGiven, P
  <1>8. AtMostOnce'
    <2>1. ASSUME NEW d \in DOMAIN STREAM_TABLE, NEW e \in DOMAIN STREAM_TABLE,
                 NEW i \in DOMAIN P(d), NEW j \in DOMAIN P(e), P(d)[i].number = P(e)[j].number
          PROVE  d = e /\ i = j
      <3>1. CASE /\ i \in DOMAIN STREAM_TABLE[d].pending_kernels
                 /\ P(d)[i] = STREAM_TABLE[d].pending_kernels[i]
        <4>1. P(d)[i].number \in Nat /\ P(d)[i].number <= launches
          BY <1>b, <3>1
        <4>2. P(e)[j].number # launches + 1
          BY <4>1, <2>1, <1>a
        <4>3. j \in DOMAIN STREAM_TABLE[e].pending_kernels /\ P(e)[j] = STREAM_TABLE[e].pending_kernels[j]
          BY <1>c, <4>2
        <4> QED BY <1>0, <2>1, <3>1, <4>3 DEF AtMostOnce
      <3>2. CASE d = h /\ i = Len(q) + 1 /\ P(d)[i].number = launches + 1
        <4>1. ~(j \in DOMAIN STREAM_TABLE[e].pending_kernels /\ P(e)[j] = STREAM_TABLE[e].pending_kernels[j])
          <5> SUFFICES ASSUME j \in DOMAIN STREAM_TABLE[e].pending_kernels,
                              P(e)[j] = STREAM_TABLE[e].pending_kernels[j]
                       PROVE  FALSE
            OBVIOUS
          <5>1. P(e)[j].number \in Nat /\ P(e)[j].number <= launches
            BY <1>b
          <5> QED BY <5>1, <3>2, <2>1, <1>a
        <4> QED BY <1>c, <3>2, <4>1
      <3> QED BY <1>c, <3>1, <3>2
    <2>2. ASSUME NEW d \in DOMAIN STREAM_TABLE, NEW i \in DOMAIN P(d)
          PROVE  P(d)[i].number \notin drained
      <3>1. CASE /\ i \in DOMAIN STREAM_TABLE[d].pending_kernels
                 /\ P(d)[i] = STREAM_TABLE[d].pending_kernels[i]
        BY <1>0, <3>1 DEF AtMostOnce, Numbers
      <3>2. CASE P(d)[i].number = launches + 1
        <4>1. \A n \in drained : n # launches + 1
          BY <1>0, <1>a DEF NumbersGiven
        <4> QED BY <3>2, <4>1
      <3> QED BY <1>c, <3>1, <3>2
    <2> QED BY <1>1, <1>a, <2>1, <2>2 DEF AtMostOnce, Numbers, P
  <1> QED BY <1>4, <1>5, <1>6, <1>7, <1>8 DEF StreamInv

LEMMA LaunchDroppedInv ==
    ASSUME StreamInv, NEW t \in Threads, NEW h \in Handles, LaunchDropped(t, h)
    PROVE  StreamInv'
  <1>0. StreamTypes /\ NumbersGiven
    BY DEF StreamInv
  <1>1. NumbersGiven'
    <2>1. launches \in Nat /\ launches' = launches + 1 /\ drained' = drained
             /\ STREAM_TABLE' = STREAM_TABLE /\ drained \subseteq Nat
      BY <1>0 DEF StreamTypes, LaunchDropped
    <2>2. \A g \in DOMAIN STREAM_TABLE : \A i \in DOMAIN STREAM_TABLE[g].pending_kernels :
             /\ STREAM_TABLE[g].pending_kernels[i].number \in Nat
             /\ STREAM_TABLE[g].pending_kernels[i].number <= launches
      BY <1>0, QueueType DEF NumbersGiven
    <2>3. \A g \in DOMAIN STREAM_TABLE : \A i \in DOMAIN STREAM_TABLE[g].pending_kernels :
             STREAM_TABLE[g].pending_kernels[i].number <= launches + 1
      BY <2>1, <2>2
    <2>4. \A n \in drained : n \in Nat /\ n <= launches
      BY <1>0, <2>1 DEF NumbersGiven
    <2>5. \A n \in drained : n <= launches + 1
      BY <2>1, <2>4
    <2> QED BY <2>1, <2>5, <2>3, <2>4 DEF NumbersGiven
  <1> QED BY <1>1 DEF StreamInv, StreamTypes, HandlesFresh, FlagIsTrue, AtMostOnce, Numbers, LaunchDropped

LEMMA StreamCallInv ==
    ASSUME StreamInv, NEW t \in Threads, StreamCall(t)
    PROVE  StreamInv'
  <1>1. CASE CreateRejected(t)
    BY <1>1, StreamInvStutters DEF CreateRejected
  <1>2. CASE CreateFetch(t)
    BY <1>2, CreateFetchInv
  <1>3. CASE CreateInsert(t)
    BY <1>3, CreateInsertInv
  <1>4. ASSUME NEW h \in Handles, Destroy(t, h)
        PROVE  StreamInv'
    BY <1>4, DestroyInv
  <1>5. ASSUME NEW h \in Handles, Synchronize(t, h)
        PROVE  StreamInv'
    BY <1>5, SynchronizeInv
  <1>6. ASSUME NEW h \in Handles, SynchronizeNothing(t, h)
        PROVE  StreamInv'
    BY <1>6, StreamInvStutters DEF SynchronizeNothing
  <1>7. ASSUME NEW h \in Handles, NEW f \in KernelIds, Launch(t, h, f)
        PROVE  StreamInv'
    BY <1>7, LaunchInv
  <1>8. ASSUME NEW h \in Handles, LaunchDropped(t, h)
        PROVE  StreamInv'
    BY <1>8, LaunchDroppedInv
  <1> QED BY <1>1, <1>2, <1>3, <1>4, <1>5, <1>6, <1>7, <1>8 DEF StreamCall

\* What a step may do to a queue: leave it, extend it, or empty it into drained.
QueueStep(h) ==
    LET before == STREAM_TABLE[h].pending_kernels
        after == STREAM_TABLE'[h].pending_kernels
    IN  \/ IsPrefix(before, after)
        \/ after = <<>> /\ Numbers(before) \subseteq drained'

LEMMA PrefixOfSelf ==
    ASSUME NEW s PROVE IsPrefix(s, s)
  BY DEF IsPrefix

LEMMA StreamCallKeeps ==
    ASSUME StreamInv, NEW t \in Threads, StreamCall(t),
           NEW g \in DOMAIN STREAM_TABLE \cap DOMAIN STREAM_TABLE'
    PROVE  QueueStep(g)
  <1>0. StreamTypes /\ HandlesFresh
    BY DEF StreamInv
  <1>u. ASSUME STREAM_TABLE'[g] = STREAM_TABLE[g]
        PROVE  QueueStep(g)
    BY <1>u, PrefixOfSelf DEF QueueStep
  <1>1. CASE CreateRejected(t) \/ CreateFetch(t)
    BY <1>1, <1>u DEF CreateRejected, CreateFetch, streamVars
  <1>2. CASE CreateInsert(t)
    <2>1. creating[t] # g
      BY <1>0, <1>2 DEF CreateInsert, HandlesFresh
    <2> QED BY <1>2, <1>u, <2>1 DEF CreateInsert
  <1>3. ASSUME NEW h \in Handles, Destroy(t, h)
        PROVE  QueueStep(g)
    BY <1>3, <1>u DEF Destroy, Restrict
  <1>4. ASSUME NEW h \in Handles, Synchronize(t, h)
        PROVE  QueueStep(g)
    <2>1. \A e \in DOMAIN STREAM_TABLE :
             STREAM_TABLE'[e] = IF e = h THEN EmptyStream ELSE STREAM_TABLE[e]
      BY <1>0, <1>4 DEF Synchronize, StreamTypes
    <2>2. CASE g = h
      BY <1>4, <2>1, <2>2, EmptyStreamType DEF QueueStep, Synchronize
    <2>3. CASE g # h
      BY <1>u, <2>1, <2>3
    <2> QED BY <2>2, <2>3
  <1>5. ASSUME NEW h \in Handles, SynchronizeNothing(t, h) \/ LaunchDropped(t, h)
        PROVE  QueueStep(g)
    BY <1>5, <1>u DEF SynchronizeNothing, LaunchDropped, streamVars
  <1>6. ASSUME NEW h \in Handles, NEW f \in KernelIds, Launch(t, h, f)
        PROVE  QueueStep(g)
    <2>1. CASE g = h
      <3>1. KernelLaunch(launches + 1, f) \in KernelLaunches
               /\ STREAM_TABLE'[h].pending_kernels
                    = Append(STREAM_TABLE[h].pending_kernels, KernelLaunch(launches + 1, f))
        BY <1>0, <1>6, LaunchTable
      <3>2. STREAM_TABLE[h].pending_kernels \in Seq(KernelLaunches)
        BY <1>0, <2>1, QueueType
      <3> QED BY <2>1, <3>1, <3>2, AppendQueue DEF QueueStep
    <2>2. CASE g # h
      <3>1. STREAM_TABLE'[g] = STREAM_TABLE[g]
        BY <1>0, <1>6, <2>2, LaunchTable
      <3> QED BY <3>1, <1>u
    <2> QED BY <2>1, <2>2
  <1> QED BY <1>1, <1>2, <1>3, <1>4, <1>5, <1>6 DEF StreamCall

-----------------------------------------------------------------------------
\* Modules and functions.

CallStates ==
    {Idle} \cup {Loading(m) : m \in Nat}
    \cup {Resolving(m, n, f) : m \in Modules, n \in Names, f \in Nat}

ModuleTypes ==
    /\ MODULE_COUNTER \in Nat \ {0} /\ FUNCTION_COUNTER \in Nat \ {0}
    /\ DOMAIN MODULE_REGISTRY \subseteq Nat
    /\ MODULE_REGISTRY = [m \in DOMAIN MODULE_REGISTRY |-> MODULE_REGISTRY[m]]
    /\ call \in [Threads -> CallStates]
    /\ returned \subseteq {Resolving(m, n, f) : m \in Modules, n \in Names, f \in Nat}

\* A module number is drawn once.
ModulesFresh ==
    /\ \A m \in DOMAIN MODULE_REGISTRY : m < MODULE_COUNTER
    /\ \A t \in Threads : call[t].op = "load" =>
          /\ call[t].id < MODULE_COUNTER
          /\ call[t].id \notin DOMAIN MODULE_REGISTRY
          /\ \A u \in Threads : u # t /\ call[u].op = "load" => call[u].id # call[t].id

\* A function handle is drawn once.
FunctionsFresh ==
    /\ \A r \in returned : r.id < FUNCTION_COUNTER
    /\ \A t \in Threads : call[t].op = "function" =>
          /\ call[t].id < FUNCTION_COUNTER
          /\ \A r \in returned : r.id # call[t].id
          /\ \A u \in Threads : u # t /\ call[u].op = "function" => call[u].id # call[t].id

ModuleInv == ModuleTypes /\ ModulesFresh /\ FunctionsFresh /\ HandlesIdentifyKernels

LEMMA ModuleInvStutters ==
    ASSUME ModuleInv, UNCHANGED moduleVars
    PROVE  ModuleInv'
  BY DEF ModuleInv, ModuleTypes, ModulesFresh, FunctionsFresh, HandlesIdentifyKernels, moduleVars

LEMMA ModuleInitInv == ModuleInit => ModuleInv
  <1> SUFFICES ASSUME ModuleInit PROVE ModuleInv
    OBVIOUS
  <1>1. \A t \in Threads : call[t] = Idle
    BY DEF ModuleInit
  <1>2. Idle.op = "idle"
    BY DEF Idle
  <1>3. ModuleTypes
    BY DEF ModuleInit, ModuleTypes, CallStates
  <1>4. ModulesFresh /\ FunctionsFresh
    BY <1>1, <1>2 DEF ModuleInit, ModulesFresh, FunctionsFresh
  <1> QED BY <1>3, <1>4 DEF ModuleInit, ModuleInv, HandlesIdentifyKernels

\* What the shapes of the records say.
LEMMA CallShapes ==
    ASSUME ModuleTypes, NEW t \in Threads
    PROVE  /\ call[t].op = "load" => call[t].id \in Nat
           /\ call[t].op = "function" =>
                 /\ call[t] = Resolving(call[t].mod, call[t].name, call[t].id)
                 /\ call[t].mod \in Modules /\ call[t].name \in Names /\ call[t].id \in Nat
  <1>1. call[t] \in CallStates
    BY DEF ModuleTypes
  <1>2. CASE call[t] = Idle
    BY <1>2 DEF Idle
  <1>3. ASSUME NEW m \in Nat, call[t] = Loading(m)
        PROVE  call[t].op = "load" /\ call[t].id = m
    BY <1>3 DEF Loading
  <1>4. ASSUME NEW m \in Modules, NEW n \in Names, NEW f \in Nat, call[t] = Resolving(m, n, f)
        PROVE  call[t].op = "function" /\ call[t].mod = m /\ call[t].name = n /\ call[t].id = f
    BY <1>4 DEF Resolving
  <1> QED BY <1>1, <1>2, <1>3, <1>4 DEF CallStates

LEMMA ReturnedShapes ==
    ASSUME ModuleTypes, NEW r \in returned
    PROVE  r.id \in Nat
  BY DEF ModuleTypes, Resolving

LEMMA LoadFetchInv ==
    ASSUME ModuleInv, NEW t \in Threads, LoadFetch(t)
    PROVE  ModuleInv'
  <1>0. ModuleTypes /\ ModulesFresh /\ FunctionsFresh /\ HandlesIdentifyKernels
    BY DEF ModuleInv
  <1>1. \A u \in Threads : call'[u] = IF u = t THEN Loading(MODULE_COUNTER) ELSE call[u]
    BY <1>0 DEF LoadFetch, ModuleTypes
  <1>2. call'[t].op = "load" /\ call'[t].id = MODULE_COUNTER
    BY <1>1 DEF Loading
  <1>3. \A u \in Threads : u # t => call'[u] = call[u]
    BY <1>1
  <1>4. /\ MODULE_COUNTER \in Nat \ {0} /\ MODULE_COUNTER' = MODULE_COUNTER + 1
        /\ MODULE_REGISTRY' = MODULE_REGISTRY /\ DOMAIN MODULE_REGISTRY \subseteq Nat
    BY <1>0 DEF LoadFetch, ModuleTypes
  <1>5. ModuleTypes'
    <2>1. Loading(MODULE_COUNTER) \in CallStates
      BY <1>4 DEF CallStates
    <2> QED BY <1>0, <2>1 DEF LoadFetch, ModuleTypes
  <1>6. ModulesFresh'
    <2>1. \A m \in DOMAIN MODULE_REGISTRY : m \in Nat /\ m < MODULE_COUNTER
      BY <1>0, <1>4 DEF ModulesFresh
    <2>2. \A u \in Threads : call[u].op = "load" => call[u].id \in Nat /\ call[u].id < MODULE_COUNTER
      BY <1>0, CallShapes DEF ModulesFresh
    <2>3. \A m \in DOMAIN MODULE_REGISTRY : m < MODULE_COUNTER'
      BY <1>4, <2>1
    <2>4. \A u \in Threads : call'[u].op = "load" =>
             call'[u].id < MODULE_COUNTER' /\ call'[u].id \notin DOMAIN MODULE_REGISTRY
      BY <1>0, <1>2, <1>3, <1>4, <2>1, <2>2 DEF ModulesFresh
    <2>5. \A u, v \in Threads : call'[u].op = "load" /\ v # u /\ call'[v].op = "load"
             => call'[v].id # call'[u].id
      BY <1>0, <1>2, <1>3, <2>2, <1>4 DEF ModulesFresh
    <2> QED BY <1>4, <2>3, <2>4, <2>5 DEF ModulesFresh
  <1>7. FunctionsFresh'
    BY <1>0, <1>2, <1>3 DEF FunctionsFresh, LoadFetch
  <1>8. HandlesIdentifyKernels'
    BY <1>0 DEF HandlesIdentifyKernels, LoadFetch
  <1> QED BY <1>5, <1>6, <1>7, <1>8 DEF ModuleInv

LEMMA FunctionFetchInv ==
    ASSUME ModuleInv, NEW t \in Threads, NEW m \in Modules, NEW n \in Names, FunctionFetch(t, m, n)
    PROVE  ModuleInv'
  <1>0. ModuleTypes /\ ModulesFresh /\ FunctionsFresh /\ HandlesIdentifyKernels
    BY DEF ModuleInv
  <1>1. \A u \in Threads : call'[u] = IF u = t THEN Resolving(m, n, FUNCTION_COUNTER) ELSE call[u]
    BY <1>0 DEF FunctionFetch, ModuleTypes
  <1>2. call'[t].op = "function" /\ call'[t].id = FUNCTION_COUNTER
    BY <1>1 DEF Resolving
  <1>3. \A u \in Threads : u # t => call'[u] = call[u]
    BY <1>1
  <1>4. FUNCTION_COUNTER \in Nat \ {0} /\ FUNCTION_COUNTER' = FUNCTION_COUNTER + 1 /\ returned' = returned
    BY <1>0 DEF FunctionFetch, ModuleTypes
  <1>5. ModuleTypes'
    <2>1. Resolving(m, n, FUNCTION_COUNTER) \in CallStates
      BY <1>4 DEF CallStates
    <2> QED BY <1>0, <2>1 DEF FunctionFetch, ModuleTypes
  <1>6. FunctionsFresh'
    <2>1. \A r \in returned : r.id \in Nat /\ r.id < FUNCTION_COUNTER
      BY <1>0, ReturnedShapes DEF FunctionsFresh
    <2>2. \A u \in Threads : call[u].op = "function" => call[u].id \in Nat /\ call[u].id < FUNCTION_COUNTER
      BY <1>0, CallShapes DEF FunctionsFresh
    <2>3. \A r \in returned : r.id < FUNCTION_COUNTER'
      BY <1>4, <2>1
    <2>4. \A u \in Threads : call'[u].op = "function" =>
             call'[u].id < FUNCTION_COUNTER' /\ \A r \in returned : r.id # call'[u].id
      BY <1>0, <1>2, <1>3, <1>4, <2>1, <2>2 DEF FunctionsFresh
    <2>5. \A u, v \in Threads : call'[u].op = "function" /\ v # u /\ call'[v].op = "function"
             => call'[v].id # call'[u].id
      BY <1>0, <1>2, <1>3, <2>2, <1>4 DEF FunctionsFresh
    <2> QED BY <1>4, <2>3, <2>4, <2>5 DEF FunctionsFresh
  <1>7. ModulesFresh'
    BY <1>0, <1>2, <1>3 DEF ModulesFresh, FunctionFetch
  <1>8. HandlesIdentifyKernels'
    BY <1>0 DEF HandlesIdentifyKernels, FunctionFetch
  <1> QED BY <1>5, <1>6, <1>7, <1>8 DEF ModuleInv

LEMMA LoadInsertInv ==
    ASSUME ModuleInv, NEW t \in Threads, LoadInsert(t)
    PROVE  ModuleInv'
  <1>0. ModuleTypes /\ ModulesFresh /\ FunctionsFresh /\ HandlesIdentifyKernels
    BY DEF ModuleInv
  <1> DEFINE id == call[t].id
  <1>1. call'[t] = Idle /\ \A u \in Threads : u # t => call'[u] = call[u]
    BY <1>0 DEF LoadInsert, ModuleTypes
  <1>2. call'[t].op = "idle"
    BY <1>1 DEF Idle
  <1>3. /\ DOMAIN MODULE_REGISTRY' = DOMAIN MODULE_REGISTRY \cup {id}
        /\ MODULE_REGISTRY' = [m \in DOMAIN MODULE_REGISTRY' |-> MODULE_REGISTRY'[m]]
        /\ DOMAIN MODULE_REGISTRY'[id] = {}
        /\ \A m \in DOMAIN MODULE_REGISTRY : m # id => MODULE_REGISTRY'[m] = MODULE_REGISTRY[m]
    BY DEF LoadInsert, Put
  <1>4. id \in Nat /\ call[t].op = "load"
    BY <1>0, CallShapes DEF LoadInsert
  <1>5. ModuleTypes'
    <2>1. call' \in [Threads -> CallStates]
      BY <1>0 DEF LoadInsert, ModuleTypes, CallStates
    <2> QED BY <1>0, <1>3, <1>4, <2>1 DEF LoadInsert, ModuleTypes
  <1> HIDE DEF id
  <1>6. ModulesFresh'
    <2>1. id < MODULE_COUNTER /\ \A u \in Threads : u # t /\ call[u].op = "load" => call[u].id # id
      BY <1>0, <1>4 DEF ModulesFresh, id
    <2>2. \A u \in Threads : call'[u].op = "load" => u # t /\ call'[u] = call[u]
      BY <1>1, <1>2
    <2>3. MODULE_COUNTER' = MODULE_COUNTER
      BY DEF LoadInsert
    <2>4. \A m \in DOMAIN MODULE_REGISTRY' : m < MODULE_COUNTER
      BY <1>0, <1>3, <2>1 DEF ModulesFresh
    <2>5. \A u \in Threads : call'[u].op = "load" =>
             call'[u].id < MODULE_COUNTER /\ call'[u].id \notin DOMAIN MODULE_REGISTRY'
      BY <1>0, <1>3, <2>1, <2>2 DEF ModulesFresh
    <2>6. \A u, v \in Threads : call'[u].op = "load" /\ v # u /\ call'[v].op = "load"
             => call'[v].id # call'[u].id
      BY <1>0, <2>2 DEF ModulesFresh
    <2> QED BY <2>3, <2>4, <2>5, <2>6 DEF ModulesFresh
  <1>7. FunctionsFresh'
    <2>1. \A u \in Threads : call'[u].op = "function" => call'[u] = call[u]
      BY <1>1, <1>2
    <2> QED BY <1>0, <2>1 DEF FunctionsFresh, LoadInsert
  <1>8. HandlesIdentifyKernels'
    BY <1>0, <1>3 DEF HandlesIdentifyKernels, LoadInsert
  <1> QED BY <1>5, <1>6, <1>7, <1>8 DEF ModuleInv

\* The registry after a function was registered, or found to have no module.
LEMMA FunctionInsertRegistry ==
    ASSUME ModuleTypes, NEW t \in Threads, FunctionInsert(t)
    PROVE  /\ DOMAIN MODULE_REGISTRY' = DOMAIN MODULE_REGISTRY
           /\ MODULE_REGISTRY' = [m \in DOMAIN MODULE_REGISTRY' |-> MODULE_REGISTRY'[m]]
           /\ \A m \in DOMAIN MODULE_REGISTRY :
                 /\ DOMAIN MODULE_REGISTRY[m] \subseteq DOMAIN MODULE_REGISTRY'[m]
                 /\ \A n \in DOMAIN MODULE_REGISTRY'[m] :
                       \/ n \in DOMAIN MODULE_REGISTRY[m]
                          /\ MODULE_REGISTRY'[m][n] = MODULE_REGISTRY[m][n]
                       \/ call[t] = Resolving(m, n, MODULE_REGISTRY'[m][n])
  <1> DEFINE c == call[t]
             entry == Put(MODULE_REGISTRY[c.mod], c.name, c.id)
  <1>1. c = Resolving(c.mod, c.name, c.id)
    BY CallShapes DEF FunctionInsert
  <1>2. CASE c.mod \in DOMAIN MODULE_REGISTRY
    <2>1. MODULE_REGISTRY' = [MODULE_REGISTRY EXCEPT ![c.mod] = entry]
      BY <1>2 DEF FunctionInsert
    <2>2. /\ DOMAIN entry = DOMAIN MODULE_REGISTRY[c.mod] \cup {c.name}
          /\ \A n \in DOMAIN entry :
                entry[n] = IF n = c.name THEN c.id ELSE MODULE_REGISTRY[c.mod][n]
      BY DEF Put
    <2> HIDE DEF entry, c
    <2>3. /\ DOMAIN MODULE_REGISTRY' = DOMAIN MODULE_REGISTRY
          /\ MODULE_REGISTRY' = [m \in DOMAIN MODULE_REGISTRY' |-> MODULE_REGISTRY'[m]]
          /\ MODULE_REGISTRY'[c.mod] = entry
          /\ \A m \in DOMAIN MODULE_REGISTRY : m # c.mod => MODULE_REGISTRY'[m] = MODULE_REGISTRY[m]
      BY <1>2, <2>1 DEF ModuleTypes
    <2>4. \A n \in DOMAIN entry :
             \/ n \in DOMAIN MODULE_REGISTRY[c.mod] /\ entry[n] = MODULE_REGISTRY[c.mod][n]
             \/ c = Resolving(c.mod, n, entry[n])
      BY <1>1, <2>2
    <2> QED BY <2>2, <2>3, <2>4 DEF c
  <1>3. CASE c.mod \notin DOMAIN MODULE_REGISTRY
    BY <1>3 DEF FunctionInsert, ModuleTypes
  <1> QED BY <1>2, <1>3

LEMMA FunctionInsertInv ==
    ASSUME ModuleInv, NEW t \in Threads, FunctionInsert(t)
    PROVE  ModuleInv'
  <1>0. ModuleTypes /\ ModulesFresh /\ FunctionsFresh /\ HandlesIdentifyKernels
    BY DEF ModuleInv
  <1>1. call'[t] = Idle /\ \A u \in Threads : u # t => call'[u] = call[u]
    BY <1>0 DEF FunctionInsert, ModuleTypes
  <1>2. call'[t].op = "idle"
    BY <1>1 DEF Idle
  <1>3. returned' = returned \cup {call[t]} /\ call[t].op = "function"
    BY DEF FunctionInsert
  <1>4. ModuleTypes'
    <2>1. call' \in [Threads -> CallStates]
      BY <1>0 DEF FunctionInsert, ModuleTypes, CallStates
    <2>2. returned' \subseteq {Resolving(m, n, f) : m \in Modules, n \in Names, f \in Nat}
      BY <1>0, <1>3, CallShapes DEF ModuleTypes
    <2>3. DOMAIN MODULE_REGISTRY' \subseteq Nat
             /\ MODULE_REGISTRY' = [m \in DOMAIN MODULE_REGISTRY' |-> MODULE_REGISTRY'[m]]
      BY <1>0, FunctionInsertRegistry DEF ModuleTypes
    <2>4. MODULE_COUNTER' \in Nat \ {0} /\ FUNCTION_COUNTER' \in Nat \ {0}
      BY <1>0 DEF FunctionInsert, ModuleTypes
    <2> QED BY <2>1, <2>2, <2>3, <2>4 DEF ModuleTypes
  <1>5. ModulesFresh'
    <2>1. \A u \in Threads : call'[u].op = "load" => call'[u] = call[u]
      BY <1>1, <1>2
    <2>2. DOMAIN MODULE_REGISTRY' = DOMAIN MODULE_REGISTRY /\ MODULE_COUNTER' = MODULE_COUNTER
      BY <1>0, FunctionInsertRegistry DEF FunctionInsert
    <2> QED BY <1>0, <2>1, <2>2 DEF ModulesFresh
  <1>6. FunctionsFresh'
    <2>1. \A u \in Threads : call'[u].op = "function" => u # t /\ call'[u] = call[u]
      BY <1>1, <1>2
    <2>2. FUNCTION_COUNTER' = FUNCTION_COUNTER
      BY DEF FunctionInsert
    <2>3. \A r \in returned' : r.id < FUNCTION_COUNTER
      BY <1>0, <1>3 DEF FunctionsFresh
    <2>4. \A u \in Threads : call'[u].op = "function" =>
             /\ call'[u].id < FUNCTION_COUNTER
             /\ \A r \in returned' : r.id # call'[u].id
      BY <1>0, <1>3, <2>1 DEF FunctionsFresh
    <2>5. \A u, v \in Threads : call'[u].op = "function" /\ v # u /\ call'[v].op = "function"
             => call'[v].id # call'[u].id
      BY <1>0, <2>1 DEF FunctionsFresh
    <2> QED BY <2>2, <2>3, <2>4, <2>5 DEF FunctionsFresh
  <1>7. HandlesIdentifyKernels'
    <2>1. \A q, r \in returned' : q.id = r.id => q = r
      BY <1>0, <1>3 DEF HandlesIdentifyKernels, FunctionsFresh
    <2>2. ASSUME NEW m \in DOMAIN MODULE_REGISTRY', NEW n \in DOMAIN MODULE_REGISTRY'[m]
          PROVE  Resolving(m, n, MODULE_REGISTRY'[m][n]) \in returned'
      <3>1. \/ /\ m \in DOMAIN MODULE_REGISTRY /\ n \in DOMAIN MODULE_REGISTRY[m]
               /\ MODULE_REGISTRY'[m][n] = MODULE_REGISTRY[m][n]
            \/ call[t] = Resolving(m, n, MODULE_REGISTRY'[m][n])
        BY <1>0, <2>2, FunctionInsertRegistry
      <3> QED BY <1>0, <1>3, <3>1 DEF HandlesIdentifyKernels
    <2> QED BY <2>1, <2>2 DEF HandlesIdentifyKernels
  <1> QED BY <1>4, <1>5, <1>6, <1>7 DEF ModuleInv

LEMMA UnloadInv ==
    ASSUME ModuleInv, NEW t \in Threads, NEW m \in Modules, Unload(t, m)
    PROVE  ModuleInv'
  <1>1. MODULE_REGISTRY' = [k \in DOMAIN MODULE_REGISTRY \ {m} |-> MODULE_REGISTRY[k]]
    BY DEF Unload, Restrict
  <1>2. ModuleTypes'
    <2>1. DOMAIN MODULE_REGISTRY' \subseteq Nat
             /\ MODULE_REGISTRY' = [k \in DOMAIN MODULE_REGISTRY' |-> MODULE_REGISTRY'[k]]
      BY <1>1 DEF ModuleInv, ModuleTypes
    <2>2. call' \in [Threads -> CallStates] /\ MODULE_COUNTER' \in Nat \ {0}
             /\ FUNCTION_COUNTER' \in Nat \ {0} /\ returned' = returned
      BY DEF ModuleInv, ModuleTypes, Unload
    <2> QED BY <2>1, <2>2 DEF ModuleInv, ModuleTypes
  <1>3. ModulesFresh' /\ FunctionsFresh'
    BY <1>1 DEF ModuleInv, ModulesFresh, FunctionsFresh, Unload
  <1>4. HandlesIdentifyKernels'
    BY <1>1 DEF ModuleInv, HandlesIdentifyKernels, Unload
  <1> QED BY <1>2, <1>3, <1>4 DEF ModuleInv

LEMMA ModuleCallInv ==
    ASSUME ModuleInv, NEW t \in Threads, ModuleCall(t)
    PROVE  ModuleInv'
  <1>1. CASE CallFails(t)
    BY <1>1, ModuleInvStutters DEF CallFails
  <1>2. CASE LoadFetch(t)
    BY <1>2, LoadFetchInv
  <1>3. CASE LoadInsert(t)
    BY <1>3, LoadInsertInv
  <1>4. CASE FunctionInsert(t)
    BY <1>4, FunctionInsertInv
  <1>5. ASSUME NEW m \in Modules, Unload(t, m)
        PROVE  ModuleInv'
    BY <1>5, UnloadInv
  <1>6. ASSUME NEW m \in Modules, NEW n \in Names, FunctionFetch(t, m, n)
        PROVE  ModuleInv'
    BY <1>6, FunctionFetchInv
  <1> QED BY <1>1, <1>2, <1>3, <1>4, <1>5, <1>6 DEF ModuleCall

LEMMA ModuleCallKeeps ==
    ASSUME ModuleInv, NEW t \in Threads, ModuleCall(t),
           NEW m \in DOMAIN MODULE_REGISTRY \cap DOMAIN MODULE_REGISTRY'
    PROVE  DOMAIN MODULE_REGISTRY[m] \subseteq DOMAIN MODULE_REGISTRY'[m]
  <1>0. ModuleTypes /\ ModulesFresh
    BY DEF ModuleInv
  <1>1. CASE CallFails(t) \/ LoadFetch(t)
    BY <1>1 DEF CallFails, LoadFetch, moduleVars
  <1>2. CASE LoadInsert(t)
    <2>1. call[t].id # m
      BY <1>0, <1>2 DEF LoadInsert, ModulesFresh
    <2>2. MODULE_REGISTRY'[m] = MODULE_REGISTRY[m]
      BY <1>2, <2>1 DEF LoadInsert, Put
    <2> QED BY <2>2
  <1>3. CASE FunctionInsert(t)
    BY <1>0, <1>3, FunctionInsertRegistry
  <1>4. ASSUME NEW k \in Modules, Unload(t, k)
        PROVE  MODULE_REGISTRY'[m] = MODULE_REGISTRY[m]
    BY <1>4 DEF Unload, Restrict
  <1>5. ASSUME NEW k \in Modules, NEW n \in Names, FunctionFetch(t, k, n)
        PROVE  MODULE_REGISTRY' = MODULE_REGISTRY
    BY <1>5 DEF FunctionFetch
  <1> QED BY <1>1, <1>2, <1>3, <1>4, <1>5 DEF ModuleCall

-----------------------------------------------------------------------------
\* The two registries together.

LEMMA LaunchStepInv ==
    ASSUME StreamInv, ModuleInv, [Next]_<<streamVars, moduleVars>>
    PROVE  StreamInv' /\ ModuleInv'
  <1>1. ASSUME NEW t \in Threads, StreamCall(t),
               UNCHANGED <<MODULE_COUNTER, FUNCTION_COUNTER, MODULE_REGISTRY, call, returned>>
        PROVE  StreamInv' /\ ModuleInv'
    BY <1>1, StreamCallInv, ModuleInvStutters DEF moduleVars
  <1>2. ASSUME NEW t \in Threads, ModuleCall(t), UNCHANGED streamVars
        PROVE  StreamInv' /\ ModuleInv'
    BY <1>2, ModuleCallInv, StreamInvStutters
  <1>3. CASE UNCHANGED <<streamVars, moduleVars>>
    BY <1>3, StreamInvStutters, ModuleInvStutters
  <1> QED BY <1>1, <1>2, <1>3 DEF Next

LEMMA LaunchInvariant == Spec => [](StreamInv /\ ModuleInv)
  <1>1. Init => StreamInv /\ ModuleInv
    BY StreamInitInv, ModuleInitInv DEF Init
  <1>2. StreamInv /\ ModuleInv /\ [Next]_<<streamVars, moduleVars>> => (StreamInv /\ ModuleInv)'
    BY LaunchStepInv
  <1> QED BY <1>1, <1>2, PTL DEF Spec

(* However many threads create, destroy, synchronize and launch on however *)
(* many streams, StreamContext.synchronized is set exactly while nothing   *)
(* is pending.                                                             *)
THEOREM FlagTheorem == Spec => []FlagIsTrue
  <1>1. StreamInv => FlagIsTrue
    BY DEF StreamInv
  <1> QED BY <1>1, LaunchInvariant, PTL

(* A launch is pending at most once, in one stream, and not after          *)
(* cudaStreamSynchronize has drained it.                                   *)
THEOREM LaunchedOnce == Spec => []AtMostOnce
  <1>1. StreamInv => AtMostOnce
    BY DEF StreamInv
  <1> QED BY <1>1, LaunchInvariant, PTL

(* cuModuleGetFunction never returns one handle for two kernels, and the   *)
(* registry holds only handles it returned for the kernel in question.     *)
THEOREM FunctionHandles == Spec => []HandlesIdentifyKernels
  <1>1. ModuleInv => HandlesIdentifyKernels
    BY DEF ModuleInv
  <1> QED BY <1>1, LaunchInvariant, PTL

(* A queue loses launches only to a synchronization, which takes all of    *)
(* them, or with its stream: cudaStreamCreate cannot empty it, because the *)
(* handle it drew earlier is nobody else's.                                *)
THEOREM QueueOrder == Spec => QueuedLaunchesKept
  <1> DEFINE Kept == \A h \in DOMAIN STREAM_TABLE \cap DOMAIN STREAM_TABLE' : QueueStep(h)
  <1>1. StreamInv /\ ModuleInv /\ [Next]_<<streamVars, moduleVars>> => [Kept]_streamVars
    <2> SUFFICES ASSUME StreamInv, [Next]_<<streamVars, moduleVars>>, ~UNCHANGED streamVars
                 PROVE  Kept
      OBVIOUS
    <2>1. PICK t \in Threads : StreamCall(t)
      BY DEF Next
    <2> QED BY <2>1, StreamCallKeeps
  <1>2. Spec => [][Kept]_streamVars
    BY <1>1, LaunchInvariant, PTL DEF Spec
  <1> QED BY <1>2 DEF QueuedLaunchesKept, QueueStep

(* No load, lookup or failed call takes a function from a loaded module:   *)
(* a module number drawn by cuModuleLoad is nobody else's.                 *)
THEOREM LoadsReplaceNothing == Spec => FunctionsOutliveLoads
  <1> DEFINE Kept == \A m \in DOMAIN MODULE_REGISTRY \cap DOMAIN MODULE_REGISTRY' :
                        DOMAIN MODULE_REGISTRY[m] \subseteq DOMAIN MODULE_REGISTRY'[m]
  <1>1. StreamInv /\ ModuleInv /\ [Next]_<<streamVars, moduleVars>> => [Kept]_moduleVars
    <2> SUFFICES ASSUME ModuleInv, [Next]_<<streamVars, moduleVars>>, ~UNCHANGED moduleVars
                 PROVE  Kept
      OBVIOUS
    <2>1. PICK t \in Threads : ModuleCall(t)
      BY DEF Next, moduleVars
    <2> QED BY <2>1, ModuleCallKeeps
  <1>2. Spec => [][Kept]_moduleVars
    BY <1>1, LaunchInvariant, PTL DEF Spec
  <1> QED BY <1>2 DEF FunctionsOutliveLoads
=============================================================================
