----------------------------- MODULE JitPipeline -----------------------------
(***************************************************************************)
(* The pipeline of JitEngine::compile_ptx (omni-core/src/jit.rs): a module *)
(* lifted from PTX, or built by a caller, goes through the passes of       *)
(* MlirPasses and then through the code generator of the backend           *)
(* (omni-core/src/codegen).  A generated payload is the sequence of the    *)
(* kernel functions it defines; of each the model keeps its entry point,   *)
(* the operation it was generated from and what its body computes.         *)
(***************************************************************************)
EXTENDS MlirPasses, HardwareProbe

VARIABLE kernel     \* the GeneratedKernel, with ok = FALSE for an error

pipelineVars == <<ops, source, stage, backend, kernel>>

Spirv == backend \in {"VulkanGeneric", "CpuVectorized"}

\* Kernel name and block size before the first operation.
NoKernel ==
    [ok |-> TRUE, name |-> <<"omni_kernel">>, functions |-> <<>>,
     block_size |-> CASE backend = "AmdRocm" -> <<64, 1>>
                      [] backend = "AppleMetal" -> <<32, 1>>
                      [] OTHER -> <<16, 16>>]

\* IrLifter::lift_ptx: one operation, its kind guessed from the PTX text.
lift_ptx ==
    /\ stage = "build" /\ ops = <<>>
    /\ \E kind \in LiftedKinds :
          ops' = <<OmniOp(0, kind, 0, <<-1, -2>>)>>
    /\ source' = ops'
    /\ UNCHANGED <<stage, backend, kernel>>

KernelPrefix(kind) == CASE kind = "MatMul" -> "omni_matmul"
                        [] kind = "Relu" -> "omni_relu"
                        [] kind = "Add" -> "omni_add"
                        [] kind = "Opaque" -> "omni_fallback"

kernel_name(op) == <<KernelPrefix(op.kind), op.id>>

\* What the body of the function computes from its arguments: the activation
\* of a MatMul only if it is Relu (Gelu, Silu), the input for an Opaque one.
\* mutant: the fused activation is left out
BodyUnfused(op, args) ==
    CASE op.kind = "MatMul" -> Apply("MatMul", <<args[1], args[2]>>)
      [] op.kind = "Opaque" -> args[1]
      [] OTHER -> Apply(op.kind, args)

Body(op, args) ==
    CASE op.kind = "MatMul" ->
            LET product == Apply("MatMul", <<args[1], args[2]>>)
            IN  IF op.fused = "Relu" THEN Apply("Relu", <<product>>) ELSE product
      [] op.kind = "Opaque" -> args[1]
      [] OTHER -> Apply(op.kind, args)

\* The block size a generator leaves after an operation: only SPIR-V sets it
\* for the elementwise kernels.
BlockAfter(op, block) == IF op.kind = "MatMul" THEN (IF Spirv THEN <<16, 16>> ELSE <<8, 8>>)
                         ELSE IF Spirv THEN <<256, 1>> ELSE block

\* mutant: the name of the first kernel is kept
GenerateNamesFirst(acc, op) ==
    IF ~acc.ok \/ op.kind \notin {"MatMul", "Relu", "Add", "Opaque"}
    THEN [acc EXCEPT !.ok = FALSE]
    ELSE [ok |-> TRUE,
          name |-> IF acc.functions = <<>> THEN kernel_name(op) ELSE acc.name,
          functions |-> Append(acc.functions,
              [entry |-> IF Spirv THEN <<"main">> ELSE kernel_name(op), op |-> op]),
          block_size |-> BlockAfter(op, acc.block_size)]

\* One iteration of generate's loop; an unsupported kind is an error.
GenerateOp(acc, op) ==
    IF ~acc.ok \/ op.kind \notin {"MatMul", "Relu", "Add", "Opaque"}
    THEN [acc EXCEPT !.ok = FALSE]
    ELSE [ok |-> TRUE,
          name |-> kernel_name(op),
          functions |-> Append(acc.functions,
              [entry |-> IF Spirv THEN <<"main">> ELSE kernel_name(op), op |-> op]),
          block_size |-> BlockAfter(op, acc.block_size)]

\* The kernel after each operation.
Generate(prog) ==
    LET generated[n \in 0..Len(prog)] ==
            IF n = 0 THEN NoKernel ELSE GenerateOp(generated[n - 1], prog[n])
    IN  generated

generate ==
    /\ stage = "done"
    /\ kernel' = Generate(ops)[Len(ops)]
    /\ stage' = "generated"
    /\ UNCHANGED <<ops, source, backend>>

\* compile_ptx returns; the next call starts from an empty module.
Finish ==
    /\ stage = "generated"
    /\ ops' = <<>> /\ source' = <<>> /\ stage' = "build" /\ kernel' = NoKernel
    /\ UNCHANGED backend

\* OmniRuntime::init: the engine gets the backend of the machine it runs on.
PipelineInit ==
    /\ Init /\ kernel = NoKernel
    /\ \E m \in Machines : backend = probe(m).target_backend

PipelineNext ==
    \/ push_op /\ UNCHANGED kernel
    \/ lift_ptx
    \/ Pass /\ UNCHANGED kernel
    \/ generate
    \/ Finish

PipelineSpec == PipelineInit /\ [][PipelineNext]_pipelineVars

-----------------------------------------------------------------------------
\* The term each value has when the functions of the payload run in order.
Runs(functions) ==
    LET env[n \in 0..Len(functions)] ==
            IF n = 0 THEN [v \in {} |-> <<"undef">>]
            ELSE LET op == functions[n].op
                 IN  Insert(env[n - 1], op.output,
                            Body(op, [i \in DOMAIN op.inputs |-> ValueOf(env[n - 1], op.inputs[i])]))
    IN  env

Computed == Runs(kernel.functions)[Len(kernel.functions)]

Generated == stage = "generated" /\ kernel.ok

(* The payload computes what the module meant: with the final output kept, *)
(* no product lost to fusion, no Add fused and no opaque operation, the    *)
(* generated functions run in order give the final output its meaning.     *)
EndToEnd ==
    /\ Generated /\ source # <<>>
    /\ FinalOutput \in Outputs(ops)
    /\ ~ \E i \in 1..(Len(source) - 1) : Overwritten(i)
    /\ \A i \in DOMAIN ops : ops[i].fused # "Add" /\ ops[i].kind # "Opaque"
    => Computed[FinalOutput] = Meaning(source)[FinalOutput]

(* The kernel is named after the function of the final output, and no      *)
(* other function of the payload has that entry point.                     *)
NamedKernelIsFinal ==
    /\ Generated /\ source # <<>>
    /\ FinalOutput \in Outputs(ops) /\ ~Spirv
    => \E k \in DOMAIN kernel.functions :
          /\ kernel.functions[k].op.output = FinalOutput
          /\ \A m \in DOMAIN kernel.functions : kernel.functions[m].entry = kernel.name <=> m = k
=============================================================================
