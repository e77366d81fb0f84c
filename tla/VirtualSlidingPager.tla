------------------------ MODULE VirtualSlidingPager ------------------------
(***************************************************************************)
(* The pager of omni-core/src/memory/pager.rs on top of the allocator:     *)
(* client threads post eviction and prefetch commands on an unbounded FIFO *)
(* channel, one send at a time, and a background worker applies them.  The *)
(* worker asks the allocator for the block's domain and migrates it under  *)
(* two separate lock acquisitions; clients go on using the allocator in    *)
(* between.  Dropping the pager posts Shutdown and joins the worker.       *)
(*                                                                         *)
(* What is abstracted: the transfer-time estimate (it is only logged), and *)
(* get_metrics, whose result only feeds that estimate.  The pager is       *)
(* shared by reference count, so Rust runs Drop when no slide_window call  *)
(* is in progress and none can follow.                                     *)
(***************************************************************************)
EXTENDS DuvasAllocator, Sequences

CONSTANTS
    Clients,        \* application threads
    Layers,         \* addresses that occur in windows, allocated or not
    MaxWindow,      \* bound: prefetches, and evictions, in one call
    MaxCalls,       \* bound: slide_window calls of one client
    AppDomains      \* domains clients migrate blocks to by themselves

ASSUME PagerAssumption ==
    /\ Layers \subseteq Addr
    /\ MaxWindow \in Nat
    /\ MaxCalls \in Nat
    /\ AppDomains \subseteq MemoryDomain

VARIABLES
    queue,          \* cmd_sender / cmd_receiver channel
    todo,           \* todo[c]: sends the current slide_window of c still owes
    calls,          \* calls[c]: slide_window calls c has started
    wpc,            \* where the worker is in its loop
    wcmd,           \* the command it is working on
    pager           \* "running", "joining" (in Drop) or "dropped"

pagerVars == <<queue, todo, calls, wpc, wcmd, pager>>
allVars == <<vars, pagerVars>>

Evict(addr) == [op |-> "Evict", addr |-> addr]
Prefetch(addr) == [op |-> "Prefetch", addr |-> addr]
Shutdown == [op |-> "Shutdown"]
NoCommand == [op |-> "None"]

PageCommand == {Evict(a) : a \in Layers} \cup {Prefetch(a) : a \in Layers}

-----------------------------------------------------------------------------
PagerInit ==
    /\ Init
    /\ queue = <<>>
    /\ todo = [c \in Clients |-> <<>>]
    /\ calls = [c \in Clients |-> 0]
    /\ wpc = "recv"
    /\ wcmd = NoCommand
    /\ pager = "running"

\* mutant of Commands: the prefetches are dispatched first
PrefetchesFirst(prefetch_layers, evict_layers) ==
    [i \in 1..Len(prefetch_layers) |-> Prefetch(prefetch_layers[i])]
        \o [i \in 1..Len(evict_layers) |-> Evict(evict_layers[i])]

\* The sends of one slide_window call, in order: evictions, then prefetches.
Commands(prefetch_layers, evict_layers) ==
    [i \in 1..Len(evict_layers) |-> Evict(evict_layers[i])]
        \o [i \in 1..Len(prefetch_layers) |-> Prefetch(prefetch_layers[i])]

\* slide_window is entered.  Its first argument, active_layers, is only logged.
SlideWindow(c, prefetch_layers, evict_layers) ==
    /\ pager = "running"
    /\ todo[c] = <<>>
    /\ calls[c] < MaxCalls
    /\ calls' = [calls EXCEPT ![c] = @ + 1]
    /\ todo' = [todo EXCEPT ![c] = Commands(prefetch_layers, evict_layers)]
    /\ UNCHANGED <<vars, queue, wpc, wcmd, pager>>

\* One send of a call in progress; sends of other threads may come between.
Send(c) ==
    /\ todo[c] # <<>>
    /\ queue' = Append(queue, Head(todo[c]))
    /\ todo' = [todo EXCEPT ![c] = Tail(@)]
    /\ UNCHANGED <<vars, calls, wpc, wcmd, pager>>

-----------------------------------------------------------------------------
\* mutant of WorkerRecv: the newest command is taken first
WorkerRecvNewest ==
    /\ wpc = "recv"
    /\ queue # <<>>
    /\ wcmd' = queue[Len(queue)]
    /\ queue' = SubSeq(queue, 1, Len(queue) - 1)
    /\ wpc' = IF wcmd' = Shutdown THEN "done" ELSE "check"
    /\ UNCHANGED <<vars, todo, calls, pager>>

\* receiver.recv(): the next command, or the end of the worker.
WorkerRecv ==
    /\ wpc = "recv"
    /\ queue # <<>>
    /\ wcmd' = Head(queue)
    /\ queue' = Tail(queue)
    /\ wpc' = IF wcmd' = Shutdown THEN "done" ELSE "check"
    /\ UNCHANGED <<vars, todo, calls, pager>>

\* mutant of NeedsMigration: the two residency tests are swapped
NeedsMigrationSwapped ==
    IF wcmd.op = "Prefetch" THEN get_domain(wcmd.addr) = "LocalDevice"
                            ELSE get_domain(wcmd.addr) # "LocalDevice"

\* A prefetch skips resident blocks, an eviction everything else.
NeedsMigration ==
    IF wcmd.op = "Prefetch" THEN get_domain(wcmd.addr) # "LocalDevice"
                            ELSE get_domain(wcmd.addr) = "LocalDevice"

\* get_domain under one acquisition of the allocator's lock...
WorkerCheck ==
    /\ wpc = "check"
    /\ \/ NeedsMigration /\ wpc' = "migrate" /\ UNCHANGED wcmd
       \/ ~NeedsMigration /\ wpc' = "recv" /\ wcmd' = NoCommand
    /\ UNCHANGED <<vars, queue, todo, calls, pager>>

Target == IF wcmd.op = "Prefetch" THEN "LocalDevice" ELSE "Host"

\* ...and migrate under another.  An error of migrate is only logged.
WorkerMigrate ==
    /\ wpc = "migrate"
    /\ Migrate(wcmd.addr, Target) \/ MigrateNothing(wcmd.addr, Target)
    /\ wpc' = "recv"
    /\ wcmd' = NoCommand
    /\ UNCHANGED <<queue, todo, calls, pager>>

Worker == WorkerRecv \/ WorkerCheck \/ WorkerMigrate

-----------------------------------------------------------------------------
\* mutant of Drop: joins without having posted Shutdown
DropJoinsOnly ==
    /\ pager = "running"
    /\ \A c \in Clients : todo[c] = <<>>
    /\ pager' = "joining"
    /\ UNCHANGED <<vars, queue, todo, calls, wpc, wcmd>>

\* Drop: posts Shutdown behind everything sent so far...
Drop ==
    /\ pager = "running"
    /\ \A c \in Clients : todo[c] = <<>>
    /\ queue' = Append(queue, Shutdown)
    /\ pager' = "joining"
    /\ UNCHANGED <<vars, todo, calls, wpc, wcmd>>

\* ...and blocks until the worker thread has ended.
Join ==
    /\ pager = "joining"
    /\ wpc = "done"
    /\ pager' = "dropped"
    /\ UNCHANGED <<vars, queue, todo, calls, wpc, wcmd>>

\* Clients use the allocator, which outlives the pager, at any time.
AppMemory ==
    /\ \/ BoundedAlloc
       \/ \E addr \in Addr : Free(addr) \/ FreeUnknown(addr)
       \/ \E addr \in Addr, d \in AppDomains :
             Migrate(addr, d) \/ MigrateNothing(addr, d)
    /\ UNCHANGED pagerVars

Windows == UNION {[1..n -> Layers] : n \in 0..MaxWindow}

AppWindow ==
    \E c \in Clients, prefetch_layers, evict_layers \in Windows :
          SlideWindow(c, prefetch_layers, evict_layers)

PagerNext ==
    \/ AppMemory
    \/ AppWindow
    \/ \E c \in Clients : Send(c)
    \/ Worker
    \/ Drop
    \/ Join

(* The worker and the thread in Drop are ordinary OS threads: recv returns *)
(* when a message is there, the allocator's critical sections are short    *)
(* and join returns when the thread has ended.  No fairness is assumed of  *)
(* the clients.                                                            *)
PagerFairness == WF_allVars(Worker) /\ WF_allVars(Join)

PagerSpec == PagerInit /\ [][PagerNext]_allVars /\ PagerFairness

-----------------------------------------------------------------------------
(* Type correctness of the pager's own state.                              *)
PagerTypeOK ==
    /\ queue \in Seq(PageCommand \cup {Shutdown})
    /\ todo \in [Clients -> Seq(PageCommand)]
    /\ calls \in [Clients -> 0..MaxCalls]
    /\ wpc \in {"recv", "check", "migrate", "done"}
    /\ wcmd \in PageCommand \cup {Shutdown, NoCommand}
    /\ wpc \in {"check", "migrate"} => wcmd \in PageCommand
    /\ pager \in {"running", "joining", "dropped"}

(* Shutting down loses no command: when the worker thread has ended, every *)
(* eviction and prefetch that was ever sent has been received.             *)
DrainedAtExit ==
    wpc = "done" => queue = <<>> /\ \A c \in Clients : todo[c] = <<>>

(* The eviction check is still true when it is acted upon, although the    *)
(* lock was released in between: if the block is still there, it is still  *)
(* on the device.  It needs that no client moves blocks off the device by  *)
(* itself and that no freed address comes back.                            *)
EvictionCheckStands ==
    (wpc = "migrate" /\ wcmd.op = "Evict" /\ wcmd.addr \in DOMAIN allocations)
        => allocations[wcmd.addr].domain = "LocalDevice"

Posted(cmd) == (\E i \in 1..Len(queue) : queue[i] = cmd) \/ wcmd = cmd

(* Every posted command takes effect: an eviction gets its block off the   *)
(* device sooner or later and a prefetch gets it onto the device, unless   *)
(* the block is gone, whatever other threads do to the allocator.          *)
CommandsTakeEffect ==
    \A a \in Layers :
        /\ Posted(Evict(a)) ~> get_domain(a) # "LocalDevice"
        /\ Posted(Prefetch(a)) ~> get_domain(a) \in {"LocalDevice", "None"}

(* Drop returns: the worker sees Shutdown and the join ends.               *)
DropTerminates == pager = "joining" ~> pager = "dropped"

(* The device is never asked to hold more than its capacity.               *)
DeviceWithinCapacity == allocated_device_bytes <= device_capacity_bytes
=============================================================================
