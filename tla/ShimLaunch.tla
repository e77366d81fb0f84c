----------------------------- MODULE ShimLaunch -----------------------------
(***************************************************************************)
(* A client's way to a kernel launch in omni-shim: modules, functions and  *)
(* streams together.  The same threads call both registries, and a thread  *)
(* that is in one call makes no other; a launch names any function handle, *)
(* also of a module that has been unloaded or not been looked up yet.      *)
(***************************************************************************)
EXTENDS ShimStreams

CONSTANTS Names, MaxModules, MaxFunctions
VARIABLES MODULE_COUNTER, FUNCTION_COUNTER, MODULE_REGISTRY, call, returned

INSTANCE ShimModules

ASSUME ModuleBounds == MaxModules \in Nat /\ MaxFunctions \in Nat

Init == StreamInit /\ ModuleInit

Next ==
    \E t \in Threads :
        \/ /\ call[t] = Idle /\ StreamCall(t)
           /\ UNCHANGED <<MODULE_COUNTER, FUNCTION_COUNTER, MODULE_REGISTRY, call, returned>>
        \/ creating[t] = 0 /\ ModuleCall(t) /\ UNCHANGED streamVars

Spec == Init /\ [][Next]_<<streamVars, moduleVars>>
=============================================================================
