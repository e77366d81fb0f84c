---------------------------- MODULE ShimModules ----------------------------
(***************************************************************************)
(* The module registry of omni-shim/src/cuda_driver.rs.  Loading a module  *)
(* and looking a function up both draw a number from an atomic counter     *)
(* first and take the registry's lock afterwards, so the module can be     *)
(* unloaded, or the same name looked up by another thread, in between.     *)
(* Handles and kernel names are abstract; module bytes are left out.       *)
(***************************************************************************)
EXTENDS Naturals, Functions

CONSTANTS
    Threads,
    Names,          \* kernel names
    MaxModules,     \* bound: modules ever loaded
    MaxFunctions    \* bound: function handles ever drawn

VARIABLES
    MODULE_COUNTER,     \* counted from 1 (1000 in the code)
    FUNCTION_COUNTER,   \* counted from 1 (2000 in the code)
    MODULE_REGISTRY,    \* module -> (kernel name -> function handle)
    call,               \* call[t]: the call of t in progress
    returned            \* the handles returned so far, with their kernels

moduleVars == <<MODULE_COUNTER, FUNCTION_COUNTER, MODULE_REGISTRY, call, returned>>

Modules == 1..MaxModules
Idle == [op |-> "idle"]
Loading(m) == [op |-> "load", id |-> m]
Resolving(m, n, f) == [op |-> "function", mod |-> m, name |-> n, id |-> f]

Put(f, x, y) == [z \in DOMAIN f \cup {x} |-> IF z = x THEN y ELSE f[z]]

ModuleInit ==
    /\ MODULE_COUNTER = 1
    /\ FUNCTION_COUNTER = 1
    /\ MODULE_REGISTRY = [m \in {} |-> 0]
    /\ call = [t \in Threads |-> Idle]
    /\ returned = {}

\* cuModuleLoad, cuModuleLoadData and cuModuleGetFunction fail (null or
\* malformed arguments, unreadable file) before they touch any state.
CallFails(t) == call[t] = Idle /\ UNCHANGED moduleVars

\* mutant of LoadFetch: the counter is read and not advanced
LoadReads(t) ==
    /\ call[t] = Idle
    /\ MODULE_COUNTER <= MaxModules
    /\ call' = [call EXCEPT ![t] = Loading(MODULE_COUNTER)]
    /\ UNCHANGED <<MODULE_COUNTER, FUNCTION_COUNTER, MODULE_REGISTRY, returned>>

\* Otherwise: MODULE_COUNTER.fetch_add(1), then the registry's lock.
LoadFetch(t) ==
    /\ call[t] = Idle
    /\ MODULE_COUNTER <= MaxModules
    /\ call' = [call EXCEPT ![t] = Loading(MODULE_COUNTER)]
    /\ MODULE_COUNTER' = MODULE_COUNTER + 1
    /\ UNCHANGED <<FUNCTION_COUNTER, MODULE_REGISTRY, returned>>

LoadInsert(t) ==
    /\ call[t].op = "load"
    /\ MODULE_REGISTRY' = Put(MODULE_REGISTRY, call[t].id, [n \in {} |-> 0])
    /\ call' = [call EXCEPT ![t] = Idle]
    /\ UNCHANGED <<MODULE_COUNTER, FUNCTION_COUNTER, returned>>

\* mutant of FunctionFetch: the counter is read and not advanced
FunctionReads(t, m, n) ==
    /\ call[t] = Idle
    /\ FUNCTION_COUNTER <= MaxFunctions
    /\ call' = [call EXCEPT ![t] = Resolving(m, n, FUNCTION_COUNTER)]
    /\ UNCHANGED <<MODULE_COUNTER, FUNCTION_COUNTER, MODULE_REGISTRY, returned>>

\* cuModuleGetFunction: FUNCTION_COUNTER.fetch_add(1)...
FunctionFetch(t, m, n) ==
    /\ call[t] = Idle
    /\ FUNCTION_COUNTER <= MaxFunctions
    /\ call' = [call EXCEPT ![t] = Resolving(m, n, FUNCTION_COUNTER)]
    /\ FUNCTION_COUNTER' = FUNCTION_COUNTER + 1
    /\ UNCHANGED <<MODULE_COUNTER, MODULE_REGISTRY, returned>>

\* ...then the entry, if the module is (still) there; success either way.
FunctionInsert(t) ==
    /\ call[t].op = "function"
    /\ MODULE_REGISTRY' =
         IF call[t].mod \in DOMAIN MODULE_REGISTRY
         THEN [MODULE_REGISTRY EXCEPT
                 ![call[t].mod] = Put(@, call[t].name, call[t].id)]
         ELSE MODULE_REGISTRY
    /\ returned' = returned \cup {call[t]}
    /\ call' = [call EXCEPT ![t] = Idle]
    /\ UNCHANGED <<MODULE_COUNTER, FUNCTION_COUNTER>>

\* cuModuleUnload: unknown modules are accepted as well.
Unload(t, m) ==
    /\ call[t] = Idle
    /\ MODULE_REGISTRY' = Restrict(MODULE_REGISTRY, DOMAIN MODULE_REGISTRY \ {m})
    /\ UNCHANGED <<MODULE_COUNTER, FUNCTION_COUNTER, call, returned>>

ModuleCall(t) ==
    \/ CallFails(t)
    \/ LoadFetch(t)
    \/ LoadInsert(t)
    \/ FunctionInsert(t)
    \/ \E m \in Modules :
          \/ Unload(t, m)
          \/ \E n \in Names : FunctionFetch(t, m, n)

-----------------------------------------------------------------------------
(* A function handle identifies one kernel for ever: it is never returned  *)
(* for two kernels, and a kernel of a loaded module is registered under a  *)
(* handle that was returned for it, whichever lookups and unloads overlap. *)
HandlesIdentifyKernels ==
    /\ \A q, r \in returned : q.id = r.id => q = r
    /\ \A m \in DOMAIN MODULE_REGISTRY : \A n \in DOMAIN MODULE_REGISTRY[m] :
          Resolving(m, n, MODULE_REGISTRY[m][n]) \in returned

(* A module is loaded under a number of its own: it never replaces another *)
(* module, and so never makes the functions of a loaded module vanish.     *)
FunctionsOutliveLoads ==
    [][\A m \in DOMAIN MODULE_REGISTRY \cap DOMAIN MODULE_REGISTRY' :
          DOMAIN MODULE_REGISTRY[m] \subseteq DOMAIN MODULE_REGISTRY'[m]]_moduleVars
=============================================================================
