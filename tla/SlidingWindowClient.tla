------------------------ MODULE SlidingWindowClient ------------------------
(***************************************************************************)
(* The pager used the way slide_window is meant to be used: one thread     *)
(* loads its layers first, then slides its window, always asking for the   *)
(* eviction of layers it planned to be resident and the prefetch of layers *)
(* it planned not to be, such that the planned set fits on the device.     *)
(* The thread never waits for the worker: it plans ahead of commands that  *)
(* are still queued.  (The planning thread is the environment of the code; *)
(* everything it calls is the code's.)                                     *)
(***************************************************************************)
EXTENDS VirtualSlidingPager

CONSTANT client     \* the one thread that uses the pager

ASSUME ClientAssumption == client \in Clients

VARIABLE planned    \* layers resident once everything posted is applied

clientVars == <<allVars, planned>>

PlanBytes(S) == UNION {Span(allocations, a) : a \in S}

FitsPlan(S) == Cardinality(PlanBytes(S)) <= device_capacity_bytes

ElementsOf(s) == {s[i] : i \in DOMAIN s}

Distinct(s) == \A i, j \in DOMAIN s : i # j => s[i] # s[j]

ClientInit == PagerInit /\ planned = {}

\* Layers are loaded before the first window; get_domain tells where to.
Load ==
    /\ calls[client] = 0
    /\ BoundedAlloc
    /\ planned' = IF allocations'[next_addr].domain = "LocalDevice"
                  THEN planned \cup {next_addr} ELSE planned
    /\ UNCHANGED pagerVars

Plan ==
    /\ \E prefetch_layers, evict_layers \in Windows :
          LET p == ElementsOf(prefetch_layers)
              e == ElementsOf(evict_layers)
          IN  /\ Distinct(prefetch_layers) /\ Distinct(evict_layers)
              /\ e \subseteq planned
              /\ p \subseteq DOMAIN allocations \ planned
              /\ planned' = (planned \ e) \cup p
              /\ FitsPlan(planned')
              /\ SlideWindow(client, prefetch_layers, evict_layers)

ClientNext ==
    \/ Load
    \/ Plan
    \/ (Send(client) \/ Worker \/ Drop \/ Join) /\ UNCHANGED planned

(* The only states without a successor are those after Drop has returned.  *)
ClientSpec == ClientInit /\ [][ClientNext]_clientVars

-----------------------------------------------------------------------------
(* Nothing is under way: no call in progress, no command posted.           *)
Quiet ==
    /\ todo[client] = <<>>
    /\ queue \in {<<>>, <<Shutdown>>}
    /\ wpc \in {"recv", "done"}

(* Whenever the pager has caught up, exactly the planned layers are on the *)
(* device, however far ahead of the worker the plan was made.              *)
PlanReached == Quiet => Resident = planned
=============================================================================
