---------------------------- MODULE ShimStreams ----------------------------
(***************************************************************************)
(* CUDA streams in omni-shim: STREAM_COUNTER, STREAM_TABLE and the calls   *)
(* that create, destroy and synchronize streams and launch kernels on them *)
(* (cudaLaunchKernel and cuLaunchKernel do the same to the table).  Each   *)
(* table operation is atomic per entry (a DashMap guard); creating a       *)
(* stream is two steps.  Any thread may use any handle at any time,        *)
(* destroyed ones and the null stream (0) included.                        *)
(*                                                                         *)
(* A launch is its number and the kernel it names; its dimensions and      *)
(* arguments are left out.  The number and the set drained exist only in   *)
(* the model: they say what became of a launch.                            *)
(***************************************************************************)
EXTENDS Naturals, Sequences, SequencesExt, Functions

CONSTANTS
    Threads,
    KernelIds,      \* the func arguments of launches
    MaxStreams,     \* bound: streams ever created
    MaxLaunches     \* bound: kernels ever launched

ASSUME StreamBounds == MaxStreams \in Nat /\ MaxLaunches \in Nat

VARIABLES
    STREAM_COUNTER, \* the next handle
    STREAM_TABLE,   \* handle -> [synchronized, pending_kernels]
    creating,       \* creating[t]: the handle t is about to insert, or 0
    launches,       \* number of launches accepted with success
    drained         \* launches removed from a stream by a synchronization

streamVars == <<STREAM_COUNTER, STREAM_TABLE, creating, launches, drained>>

Handles == 0..MaxStreams

\* KernelLaunch
KernelLaunch(n, f) == [number |-> n, kernel_id |-> f]
Numbers(queue) == {queue[i].number : i \in DOMAIN queue}

\* A StreamContext with nothing to do.
EmptyStream == [synchronized |-> TRUE, pending_kernels |-> <<>>]

StreamInit ==
    /\ STREAM_COUNTER = 1
    /\ STREAM_TABLE = [h \in {} |-> 0]
    /\ creating = [t \in Threads |-> 0]
    /\ launches = 0
    /\ drained = {}

\* cudaStreamCreate with a null result pointer returns before it does anything.
CreateRejected(t) == creating[t] = 0 /\ UNCHANGED streamVars

\* mutant of CreateFetch: the counter is read and not advanced
CreateReads(t) ==
    /\ creating[t] = 0
    /\ STREAM_COUNTER <= MaxStreams
    /\ creating' = [creating EXCEPT ![t] = STREAM_COUNTER]
    /\ UNCHANGED <<STREAM_COUNTER, STREAM_TABLE, launches, drained>>

\* cudaStreamCreate: STREAM_COUNTER.fetch_add(1)...
CreateFetch(t) ==
    /\ creating[t] = 0
    /\ STREAM_COUNTER <= MaxStreams
    /\ creating' = [creating EXCEPT ![t] = STREAM_COUNTER]
    /\ STREAM_COUNTER' = STREAM_COUNTER + 1
    /\ UNCHANGED <<STREAM_TABLE, launches, drained>>

\* ...then the insertion of an empty, synchronized stream.
CreateInsert(t) ==
    /\ creating[t] # 0
    /\ STREAM_TABLE' =
         [h \in DOMAIN STREAM_TABLE \cup {creating[t]} |->
            IF h = creating[t]
            THEN EmptyStream
            ELSE STREAM_TABLE[h]]
    /\ creating' = [creating EXCEPT ![t] = 0]
    /\ UNCHANGED <<STREAM_COUNTER, launches, drained>>

\* cudaStreamDestroy: unknown handles are accepted as well.
Destroy(t, h) ==
    /\ creating[t] = 0
    /\ STREAM_TABLE' = Restrict(STREAM_TABLE, DOMAIN STREAM_TABLE \ {h})
    /\ UNCHANGED <<STREAM_COUNTER, creating, launches, drained>>

\* mutant of Synchronize: marks the stream and keeps its launches
SynchronizeMarks(t, h) ==
    /\ creating[t] = 0
    /\ h \in DOMAIN STREAM_TABLE
    /\ drained' = drained \cup Numbers(STREAM_TABLE[h].pending_kernels)
    /\ STREAM_TABLE' = [STREAM_TABLE EXCEPT ![h].synchronized = TRUE]
    /\ UNCHANGED <<STREAM_COUNTER, creating, launches>>

\* cudaStreamSynchronize of a stream: clears the queue, sets the flag.
Synchronize(t, h) ==
    /\ creating[t] = 0
    /\ h \in DOMAIN STREAM_TABLE
    /\ drained' = drained \cup Numbers(STREAM_TABLE[h].pending_kernels)
    /\ STREAM_TABLE' = [STREAM_TABLE EXCEPT ![h] = EmptyStream]
    /\ UNCHANGED <<STREAM_COUNTER, creating, launches>>

\* Synchronizing an unknown stream, and cudaDeviceSynchronize and
\* cuCtxSynchronize, succeed without doing anything.
SynchronizeNothing(t, h) ==
    /\ creating[t] = 0
    /\ h \notin DOMAIN STREAM_TABLE
    /\ UNCHANGED streamVars

\* mutant of Launch: the launch replaces the ones queued before it
LaunchReplaces(t, h, f) ==
    /\ creating[t] = 0
    /\ launches < MaxLaunches
    /\ h \in DOMAIN STREAM_TABLE
    /\ launches' = launches + 1
    /\ STREAM_TABLE' =
         [STREAM_TABLE EXCEPT
            ![h] = [synchronized |-> FALSE, pending_kernels |-> <<KernelLaunch(launches + 1, f)>>]]
    /\ UNCHANGED <<STREAM_COUNTER, creating, drained>>

\* A kernel launch on a stream of the table.
Launch(t, h, f) ==
    /\ creating[t] = 0
    /\ launches < MaxLaunches
    /\ h \in DOMAIN STREAM_TABLE
    /\ launches' = launches + 1
    /\ STREAM_TABLE' =
         [STREAM_TABLE EXCEPT
            ![h] = [synchronized |-> FALSE,
                    pending_kernels |-> Append(@.pending_kernels,
                                               KernelLaunch(launches + 1, f))]]
    /\ UNCHANGED <<STREAM_COUNTER, creating, drained>>

\* On the null stream or an unknown one it succeeds and leaves no trace.
LaunchDropped(t, h) ==
    /\ creating[t] = 0
    /\ launches < MaxLaunches
    /\ h \notin DOMAIN STREAM_TABLE
    /\ launches' = launches + 1
    /\ UNCHANGED <<STREAM_COUNTER, STREAM_TABLE, creating, drained>>

StreamCall(t) ==
    \/ CreateRejected(t)
    \/ CreateFetch(t)
    \/ CreateInsert(t)
    \/ \E h \in Handles :
          \/ Destroy(t, h)
          \/ Synchronize(t, h) \/ SynchronizeNothing(t, h)
          \/ \E f \in KernelIds : Launch(t, h, f)
          \/ LaunchDropped(t, h)

-----------------------------------------------------------------------------
(* StreamContext.synchronized says what its comment says, whichever        *)
(* threads launch and synchronize at the same time: the flag is set        *)
(* exactly while nothing is pending.                                       *)
FlagIsTrue ==
    \A h \in DOMAIN STREAM_TABLE :
        STREAM_TABLE[h].synchronized <=> STREAM_TABLE[h].pending_kernels = <<>>

(* No launch can be carried out twice: it is pending at most once, in one  *)
(* stream, and not after a synchronization has drained it.                 *)
AtMostOnce ==
    \A g, h \in DOMAIN STREAM_TABLE :
        LET p == STREAM_TABLE[g].pending_kernels
            q == STREAM_TABLE[h].pending_kernels
        IN  /\ \A i \in DOMAIN p, j \in DOMAIN q : p[i].number = q[j].number => g = h /\ i = j
            /\ Numbers(p) \cap drained = {}

(* A launch stays queued, behind those queued before it, until somebody    *)
(* synchronizes its stream, which takes the whole queue, or destroys it.   *)
QueuedLaunchesKept ==
    [][\A h \in DOMAIN STREAM_TABLE \cap DOMAIN STREAM_TABLE' :
          LET before == STREAM_TABLE[h].pending_kernels
              after == STREAM_TABLE'[h].pending_kernels
          IN  \/ IsPrefix(before, after)
              \/ after = <<>> /\ Numbers(before) \subseteq drained']_streamVars
=============================================================================
