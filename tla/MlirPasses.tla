----------------------------- MODULE MlirPasses -----------------------------
(***************************************************************************)
(* The omni.tensor module of omni-core/src/mlir/dialect.rs and the passes  *)
(* PassManager::run applies to it (omni-core/src/mlir/passes.rs): constant *)
(* folding, operator fusion, loop tiling and dead code elimination.  The   *)
(* caller builds a module with push_op, each input an external value or    *)
(* the output of an earlier operation; the passes then run in order.       *)
(* SSA names are numbers: operation n outputs n, externals are negative.   *)
(* BatchedMatMul takes every branch MatMul takes, Gelu and Silu every one  *)
(* Relu takes, and are left out.                                           *)
(***************************************************************************)
EXTENDS Integers, Sequences, Subsequences

CONSTANTS
    Externals,      \* negative numbers: values the module does not compute
    Kinds,          \* operation kinds in use
    Consts,         \* values of Fill
    Backends,       \* target backends
    MaxOps          \* bound: operations of a module

ASSUME MlirAssumption ==
    /\ \A v \in Externals : v \in Int /\ v < 0
    /\ Kinds \subseteq {"MatMul", "Add", "Mul", "Opaque", "UnaryFunc", "Relu", "Softmax", "Fill"}
    /\ MaxOps \in Nat

VARIABLES
    ops,            \* OmniModule::ops
    source,         \* the operations before the passes (not state of the code)
    stage,          \* what was done last
    backend         \* hardware.target_backend

vars == <<ops, source, stage, backend>>

\* The kinds IrLifter::lift_ptx recognises, and Opaque for the rest.
LiftedKinds == {"MatMul", "Softmax", "UnaryFunc", "Opaque"}

Arity(kind) == CASE kind \in {"MatMul", "Add", "Mul", "Opaque", "UnaryFunc"} -> 2
                 [] kind \in {"Relu", "Softmax"} -> 1
                 [] kind = "Fill" -> 0

OmniOp(id, kind, value, inputs) ==
    [id |-> id, kind |-> kind, value |-> value, inputs |-> inputs, output |-> id,
     fused |-> "None", tile |-> 0]

Outputs(prog) == {prog[i].output : i \in DOMAIN prog}
Inputs(op) == {op.inputs[i] : i \in DOMAIN op.inputs}

Init ==
    /\ ops = <<>> /\ source = <<>>
    /\ stage = "build"
    /\ backend \in Backends

\* OmniModule::push_op: the id is the number of operations pushed so far.
push_op ==
    /\ stage = "build" /\ Len(ops) < MaxOps
    /\ \E kind \in Kinds :
        \E inputs \in [1..Arity(kind) -> Externals \cup Outputs(ops)],
           value \in IF kind = "Fill" THEN Consts ELSE {0} :
              ops' = Append(ops, OmniOp(Len(ops), kind, value, inputs))
    /\ source' = ops'
    /\ UNCHANGED <<stage, backend>>

-----------------------------------------------------------------------------
\* Pass 1: constant folding.  The folded operation keeps its inputs.

FoldedValue(kind, a, b) == IF kind = "Add" THEN a + b ELSE a * b

\* mutant: one constant input is enough
SomeInputConstant(op, constants) ==
    op.kind \in {"Add", "Mul"} /\ \E v \in Inputs(op) : v \in DOMAIN constants

Foldable(op, constants) ==
    op.kind \in {"Add", "Mul"} /\ Inputs(op) \subseteq DOMAIN constants

\* What the pass makes of an operation, given the constants known so far.
Fold(op, constants) ==
    LET known(v) == IF v \in DOMAIN constants THEN constants[v] ELSE 0
    IN  IF Foldable(op, constants)
        THEN [op EXCEPT !.kind = "Fill",
                        !.value = FoldedValue(op.kind, known(op.inputs[1]), known(op.inputs[2]))]
        ELSE op

\* HashMap::insert.
Insert(map, key, value) ==
    [k \in DOMAIN map \cup {key} |-> IF k = key THEN value ELSE map[k]]

\* The constants known after each operation.
Constants(prog) ==
    LET constants[n \in 0..Len(prog)] ==
            IF n = 0 THEN [v \in {} |-> 0]
            ELSE LET op == Fold(prog[n], constants[n - 1])
                 IN  IF op.kind = "Fill" THEN Insert(constants[n - 1], op.output, op.value)
                     ELSE constants[n - 1]
    IN  constants

Folded(prog) == [i \in DOMAIN prog |-> Fold(prog[i], Constants(prog)[i - 1])]

run_constant_folding ==
    /\ stage = "build"
    /\ ops' = Folded(ops)
    /\ stage' = "folded"
    /\ UNCHANGED <<source, backend>>

-----------------------------------------------------------------------------
\* Pass 2: a MatMul absorbs the next operation, if that reads its output.

\* mutant: the next operation need not read the product
AnyNext(op, next) == op.kind = "MatMul" /\ next.kind \in {"Relu", "Add"}

Fusable(op, next) ==
    /\ op.kind = "MatMul"
    /\ next.kind \in {"Relu", "Add"}
    /\ op.output \in Inputs(next)

Fused(op, next) ==
    [op EXCEPT !.fused = next.kind,
               !.output = next.output,
               !.inputs = IF next.kind = "Add"
                          THEN @ \o Pick(next.inputs, {i \in DOMAIN next.inputs :
                                                           next.inputs[i] # op.output})
                          ELSE @]

Fuses(prog, i) == i < Len(prog) /\ Fusable(prog[i], prog[i + 1])

\* skipped_indices after each operation.
Skipped(prog) ==
    LET skipped_indices[n \in 0..Len(prog)] ==
            IF n = 0 THEN {}
            ELSE IF n \notin skipped_indices[n - 1] /\ Fuses(prog, n)
            THEN skipped_indices[n - 1] \cup {n + 1}
            ELSE skipped_indices[n - 1]
    IN  skipped_indices

\* What is pushed for each operation that is not skipped.
FusedAt(prog) ==
    [i \in DOMAIN prog |-> IF Fuses(prog, i) THEN Fused(prog[i], prog[i + 1]) ELSE prog[i]]

FusedProgram(prog) == Pick(FusedAt(prog), DOMAIN prog \ Skipped(prog)[Len(prog)])

run_operator_fusion ==
    /\ stage = "folded"
    /\ ops' = FusedProgram(ops)
    /\ stage' = "fused"
    /\ UNCHANGED <<source, backend>>

-----------------------------------------------------------------------------
\* Pass 3: every MatMul is annotated with the tile size of the backend.

\* RemoteP2p takes every branch CpuVectorized takes.
tile_size(target) == CASE target = "AmdRocm" -> 64
                       [] target = "AppleMetal" -> 32
                       [] target = "VulkanGeneric" -> 16
                       [] target = "CpuVectorized" -> 8

Tiled(prog, target) ==
    [i \in DOMAIN prog |->
        IF prog[i].kind = "MatMul" THEN [prog[i] EXCEPT !.tile = tile_size(target)] ELSE prog[i]]

run_loop_tiling ==
    /\ stage = "fused"
    /\ ops' = Tiled(ops, backend)
    /\ stage' = "tiled"
    /\ UNCHANGED <<source, backend>>

-----------------------------------------------------------------------------
\* Pass 4: dead code elimination, from the last operation to the first.

\* mutant: ids taken to start from 1
IsRootFromOne(prog, op) == op.id = Len(prog)

IsRoot(prog, op) == op.id = Len(prog) - 1

\* mutant: the inputs of an operation that is kept are not marked
MarkOnlyRoot(prog, op, referenced_values) ==
    IF IsRoot(prog, op) THEN referenced_values \cup Inputs(op) ELSE referenced_values

\* The inputs of an operation that is kept are referenced.
Mark(prog, op, referenced_values) ==
    IF IsRoot(prog, op) \/ op.output \in referenced_values
    THEN referenced_values \cup Inputs(op)
    ELSE referenced_values

\* referenced_values after the last n operations.
Referenced(prog) ==
    LET referenced_values[n \in 0..Len(prog)] ==
            IF n = 0 THEN {}
            ELSE Mark(prog, prog[Len(prog) - n + 1], referenced_values[n - 1])
    IN  referenced_values

Active(prog) ==
    {i \in DOMAIN prog : \/ IsRoot(prog, prog[i])
                         \/ prog[i].output \in Referenced(prog)[Len(prog) - i]}

Pruned(prog) == Pick(prog, Active(prog))

run_dce ==
    /\ stage = "tiled"
    /\ ops' = Pruned(ops)
    /\ stage' = "done"
    /\ UNCHANGED <<source, backend>>

\* The caller drops the module and builds another one.
Restart ==
    /\ stage = "done"
    /\ ops' = <<>> /\ source' = <<>> /\ stage' = "build"
    /\ UNCHANGED backend

Pass ==
    \/ run_constant_folding
    \/ run_operator_fusion
    \/ run_loop_tiling
    \/ run_dce

Next == push_op \/ Pass \/ Restart

Spec == Init /\ [][Next]_vars

-----------------------------------------------------------------------------
(* The meaning of a module: the term each value stands for.  Constant      *)
(* subterms are evaluated, so that folding is visible as equality.         *)

Constant(args) == \A i \in DOMAIN args : args[i][1] = "const"

Apply(kind, args) ==
    CASE kind = "Add" /\ Constant(args) -> <<"const", args[1][2] + args[2][2]>>
      [] kind = "Mul" /\ Constant(args) -> <<"const", args[1][2] * args[2][2]>>
      [] kind = "Add" /\ ~Constant(args) ->                          \* commutative
            <<"Add", {args[i] : i \in DOMAIN args}, Len(args)>>
      [] OTHER -> <<kind, args>>

ValueOf(env, v) == IF v < 0 THEN <<"ext", v>>
                   ELSE IF v \in DOMAIN env THEN env[v] ELSE <<"undef">>

TermOf(op, env) ==
    LET arg(i) == ValueOf(env, op.inputs[i])
    IN  CASE op.kind = "Fill" -> <<"const", op.value>>
          [] op.kind = "MatMul" /\ op.fused # "None" ->
                Apply(op.fused, <<Apply("MatMul", <<arg(1), arg(2)>>)>>
                                \o [i \in 1..(Len(op.inputs) - 2) |-> arg(i + 2)])
          [] OTHER -> Apply(op.kind, [i \in DOMAIN op.inputs |-> arg(i)])

\* The values known after each operation, and at the end.
Envs(prog) ==
    LET env[n \in 0..Len(prog)] ==
            IF n = 0 THEN [v \in {} |-> <<"undef">>]
            ELSE Insert(env[n - 1], prog[n].output, TermOf(prog[n], env[n - 1]))
    IN  env

Meaning(prog) == Envs(prog)[Len(prog)]

\* The value computed by the last operation pushed.
FinalOutput == source[Len(source)].output

-----------------------------------------------------------------------------
(* Constant folding leaves every value with the meaning it had, through    *)
(* chains of folded operations.                                            *)
FoldingSound == stage = "folded" => Meaning(ops) = Meaning(source)

\* A product that something other than the operation it was fused with reads,
\* or that this operation reads twice.
Overwritten(i) ==
    LET v == source[i].output
    IN  /\ Fusable(source[i], source[i + 1])
        /\ \/ \E j \in DOMAIN source : j > i + 1 /\ v \in Inputs(source[j])
           \/ source[i + 1].inputs = <<v, v>>

(* Fusion keeps the meaning of every value it does not absorb, exactly     *)
(* when no fused product is read elsewhere, or twice.                      *)
FusionSound ==
    stage = "fused" =>
        ((\A v \in Outputs(ops) : Meaning(ops)[v] = Meaning(source)[v])
            <=> ~ \E i \in 1..(Len(source) - 1) : Overwritten(i))

\* A set of operations that holds the root and whatever its members read.
ClosedUnderUse(prog, C) ==
    /\ \A i \in DOMAIN prog : prog[i].id = Len(prog) - 1 => i \in C
    /\ \A i \in C, j \in DOMAIN prog : prog[j].output \in Inputs(prog[i]) => j \in C

\* The least of these: what the root reaches through inputs.
Needed(prog) ==
    {j \in DOMAIN prog : \A C \in SUBSET DOMAIN prog : ClosedUnderUse(prog, C) => j \in C}

(* Dead code elimination keeps, in order, exactly the operations the root  *)
(* reaches through inputs.                                                 *)
DceExact == [][run_dce => IsSubsequence(ops', ops, Needed(ops))]_vars

(* When nothing was fused, the passes together keep the final output and   *)
(* its meaning.                                                            *)
UnfusedPreserved ==
    /\ stage = "done" /\ source # <<>>
    /\ \A i \in 1..(Len(source) - 1) : ~Fusable(source[i], source[i + 1])
    =>
        /\ FinalOutput \in Outputs(ops)
        /\ Meaning(ops)[FinalOutput] = Meaning(source)[FinalOutput]

(* What run_dce assumes: the final output is always considered active.     *)
FinalOutputKept == stage = "done" /\ source # <<>> => FinalOutput \in Outputs(ops)
=============================================================================
