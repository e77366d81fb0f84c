-------------------------- MODULE JitPipelineProofs --------------------------
(***************************************************************************)
(* Proofs about the passes and the code generators, for modules of any     *)
(* length: what each pass does to the meaning of the values, what dead     *)
(* code elimination keeps and what the generated functions compute.        *)
(***************************************************************************)
EXTENDS JitPipeline, SubsequenceProofs

-----------------------------------------------------------------------------
(* The loops of the passes, as equations: what is known after n turns, in  *)
(* terms of what was known a turn before.  Each recursion has a solution,  *)
(* by induction over the number of turns.                                  *)

ConstantsStep(prog, n, constants) ==
    LET op == Fold(prog[n], constants)
    IN  IF op.kind = "Fill" THEN Insert(constants, op.output, op.value) ELSE constants

ConstantsEq(f, prog, m) ==
    f = [n \in 0..m |-> IF n = 0 THEN [v \in {} |-> 0] ELSE ConstantsStep(prog, n, f[n - 1])]

LEMMA ConstantsExists ==
    ASSUME NEW prog, NEW m \in Nat
    PROVE  \E f : ConstantsEq(f, prog, m)
  <1> DEFINE G == {n \in Nat : \E f : ConstantsEq(f, prog, n)}
  <1>1. 0 \in G
    <2> DEFINE f == [n \in 0..0 |-> [v \in {} |-> 0]]
    <2>1. \A n \in 0..0 : f[n] = IF n = 0 THEN [v \in {} |-> 0] ELSE ConstantsStep(prog, n, f[n - 1])
      OBVIOUS
    <2>2. ConstantsEq(f, prog, 0)
      BY <2>1 DEF ConstantsEq
    <2> HIDE DEF f
    <2> QED BY <2>2
  <1>2. ASSUME NEW n \in Nat, n \in G PROVE n + 1 \in G
    <2>1. PICK f : ConstantsEq(f, prog, n)
      BY <1>2
    <2> DEFINE x == ConstantsStep(prog, n + 1, f[n])
               g == [i \in 0..(n + 1) |-> IF i = n + 1 THEN x ELSE f[i]]
    <2>2. \A i \in 0..n : f[i] = IF i = 0 THEN [v \in {} |-> 0] ELSE ConstantsStep(prog, i, f[i - 1])
      BY <2>1 DEF ConstantsEq
    <2>3. (\A i \in 0..n : g[i] = f[i]) /\ g[n + 1] = x
      OBVIOUS
    <2>4. g = [i \in 0..(n + 1) |-> g[i]]
      OBVIOUS
    <2> HIDE DEF g
    <2>5. ASSUME NEW i \in 0..(n + 1)
          PROVE  g[i] = IF i = 0 THEN [v \in {} |-> 0] ELSE ConstantsStep(prog, i, g[i - 1])
      <3>1. CASE i = n + 1
        <4>1. i - 1 = n /\ g[i - 1] = f[n] /\ i # 0
          BY <3>1, <2>3
        <4> QED BY <4>1, <3>1, <2>3
      <3>2. CASE i # n + 1
        <4>1. i \in 0..n /\ g[i] = f[i] /\ (i # 0 => g[i - 1] = f[i - 1])
          BY <3>2, <2>3
        <4> QED BY <4>1, <2>2
      <3> QED BY <3>1, <3>2
    <2>6. ConstantsEq(g, prog, n + 1)
      BY <2>4, <2>5 DEF ConstantsEq
    <2> QED BY <2>6
  <1>3. \A n \in Nat : n < m /\ n \in G => n + 1 \in G
    BY <1>2
  <1> HIDE DEF G
  <1>4. m \in 0..m /\ \A n \in 0..m : n \in G
    BY <1>1, <1>3, Induction
  <1> QED BY <1>4 DEF G

LEMMA ConstantsDef ==
    ASSUME NEW prog, Len(prog) \in Nat
    PROVE  /\ Constants(prog)[0] = [v \in {} |-> 0]
           /\ \A n \in 1..Len(prog) : Constants(prog)[n] = ConstantsStep(prog, n, Constants(prog)[n - 1])
  <1> DEFINE f == Constants(prog)
  <1>1. f = CHOOSE g : ConstantsEq(g, prog, Len(prog))
    BY DEF Constants, ConstantsEq, ConstantsStep
  <1>2. ConstantsEq(f, prog, Len(prog))
    BY <1>1, ConstantsExists
  <1> HIDE DEF f
  <1>3. \A n \in 0..Len(prog) : f[n] = IF n = 0 THEN [v \in {} |-> 0] ELSE ConstantsStep(prog, n, f[n - 1])
    BY <1>2 DEF ConstantsEq
  <1> QED BY <1>3 DEF f

SkippedStep(prog, n, skipped_indices) ==
    IF n \notin skipped_indices /\ Fuses(prog, n) THEN skipped_indices \cup {n + 1}
    ELSE skipped_indices

SkippedEq(f, prog, m) ==
    f = [n \in 0..m |-> IF n = 0 THEN {} ELSE SkippedStep(prog, n, f[n - 1])]

LEMMA SkippedExists ==
    ASSUME NEW prog, NEW m \in Nat
    PROVE  \E f : SkippedEq(f, prog, m)
  <1> DEFINE G == {n \in Nat : \E f : SkippedEq(f, prog, n)}
  <1>1. 0 \in G
    <2> DEFINE f == [n \in 0..0 |-> {}]
    <2>1. \A n \in 0..0 : f[n] = IF n = 0 THEN {} ELSE SkippedStep(prog, n, f[n - 1])
      OBVIOUS
    <2>2. SkippedEq(f, prog, 0)
      BY <2>1 DEF SkippedEq
    <2> HIDE DEF f
    <2> QED BY <2>2
  <1>2. ASSUME NEW n \in Nat, n \in G PROVE n + 1 \in G
    <2>1. PICK f : SkippedEq(f, prog, n)
      BY <1>2
    <2> DEFINE x == SkippedStep(prog, n + 1, f[n])
               g == [i \in 0..(n + 1) |-> IF i = n + 1 THEN x ELSE f[i]]
    <2>2. \A i \in 0..n : f[i] = IF i = 0 THEN {} ELSE SkippedStep(prog, i, f[i - 1])
      BY <2>1 DEF SkippedEq
    <2>3. (\A i \in 0..n : g[i] = f[i]) /\ g[n + 1] = x
      OBVIOUS
    <2>4. g = [i \in 0..(n + 1) |-> g[i]]
      OBVIOUS
    <2> HIDE DEF g
    <2>5. ASSUME NEW i \in 0..(n + 1)
          PROVE  g[i] = IF i = 0 THEN {} ELSE SkippedStep(prog, i, g[i - 1])
      <3>1. CASE i = n + 1
        <4>1. i - 1 = n /\ g[i - 1] = f[n] /\ i # 0
          BY <3>1, <2>3
        <4> QED BY <4>1, <3>1, <2>3
      <3>2. CASE i # n + 1
        <4>1. i \in 0..n /\ g[i] = f[i] /\ (i # 0 => g[i - 1] = f[i - 1])
          BY <3>2, <2>3
        <4> QED BY <4>1, <2>2
      <3> QED BY <3>1, <3>2
    <2>6. SkippedEq(g, prog, n + 1)
      BY <2>4, <2>5 DEF SkippedEq
    <2> QED BY <2>6
  <1>3. \A n \in Nat : n < m /\ n \in G => n + 1 \in G
    BY <1>2
  <1> HIDE DEF G
  <1>4. m \in 0..m /\ \A n \in 0..m : n \in G
    BY <1>1, <1>3, Induction
  <1> QED BY <1>4 DEF G

LEMMA SkippedDef ==
    ASSUME NEW prog, Len(prog) \in Nat
    PROVE  /\ Skipped(prog)[0] = {}
           /\ \A n \in 1..Len(prog) : Skipped(prog)[n] = SkippedStep(prog, n, Skipped(prog)[n - 1])
  <1> DEFINE f == Skipped(prog)
  <1>1. f = CHOOSE g : SkippedEq(g, prog, Len(prog))
    BY DEF Skipped, SkippedEq, SkippedStep
  <1>2. SkippedEq(f, prog, Len(prog))
    BY <1>1, SkippedExists
  <1> HIDE DEF f
  <1>3. \A n \in 0..Len(prog) : f[n] = IF n = 0 THEN {} ELSE SkippedStep(prog, n, f[n - 1])
    BY <1>2 DEF SkippedEq
  <1> QED BY <1>3 DEF f

ReferencedStep(prog, n, referenced_values) ==
    Mark(prog, prog[Len(prog) - n + 1], referenced_values)

ReferencedEq(f, prog, m) ==
    f = [n \in 0..m |-> IF n = 0 THEN {} ELSE ReferencedStep(prog, n, f[n - 1])]

LEMMA ReferencedExists ==
    ASSUME NEW prog, NEW m \in Nat
    PROVE  \E f : ReferencedEq(f, prog, m)
  <1> DEFINE G == {n \in Nat : \E f : ReferencedEq(f, prog, n)}
  <1>1. 0 \in G
    <2> DEFINE f == [n \in 0..0 |-> {}]
    <2>1. \A n \in 0..0 : f[n] = IF n = 0 THEN {} ELSE ReferencedStep(prog, n, f[n - 1])
      OBVIOUS
    <2>2. ReferencedEq(f, prog, 0)
      BY <2>1 DEF ReferencedEq
    <2> HIDE DEF f
    <2> QED BY <2>2
  <1>2. ASSUME NEW n \in Nat, n \in G PROVE n + 1 \in G
    <2>1. PICK f : ReferencedEq(f, prog, n)
      BY <1>2
    <2> DEFINE x == ReferencedStep(prog, n + 1, f[n])
               g == [i \in 0..(n + 1) |-> IF i = n + 1 THEN x ELSE f[i]]
    <2>2. \A i \in 0..n : f[i] = IF i = 0 THEN {} ELSE ReferencedStep(prog, i, f[i - 1])
      BY <2>1 DEF ReferencedEq
    <2>3. (\A i \in 0..n : g[i] = f[i]) /\ g[n + 1] = x
      OBVIOUS
    <2>4. g = [i \in 0..(n + 1) |-> g[i]]
      OBVIOUS
    <2> HIDE DEF g
    <2>5. ASSUME NEW i \in 0..(n + 1)
          PROVE  g[i] = IF i = 0 THEN {} ELSE ReferencedStep(prog, i, g[i - 1])
      <3>1. CASE i = n + 1
        <4>1. i - 1 = n /\ g[i - 1] = f[n] /\ i # 0
          BY <3>1, <2>3
        <4> QED BY <4>1, <3>1, <2>3
      <3>2. CASE i # n + 1
        <4>1. i \in 0..n /\ g[i] = f[i] /\ (i # 0 => g[i - 1] = f[i - 1])
          BY <3>2, <2>3
        <4> QED BY <4>1, <2>2
      <3> QED BY <3>1, <3>2
    <2>6. ReferencedEq(g, prog, n + 1)
      BY <2>4, <2>5 DEF ReferencedEq
    <2> QED BY <2>6
  <1>3. \A n \in Nat : n < m /\ n \in G => n + 1 \in G
    BY <1>2
  <1> HIDE DEF G
  <1>4. m \in 0..m /\ \A n \in 0..m : n \in G
    BY <1>1, <1>3, Induction
  <1> QED BY <1>4 DEF G

LEMMA ReferencedDef ==
    ASSUME NEW prog, Len(prog) \in Nat
    PROVE  /\ Referenced(prog)[0] = {}
           /\ \A n \in 1..Len(prog) : Referenced(prog)[n] = ReferencedStep(prog, n, Referenced(prog)[n - 1])
  <1> DEFINE f == Referenced(prog)
  <1>1. f = CHOOSE g : ReferencedEq(g, prog, Len(prog))
    BY DEF Referenced, ReferencedEq, ReferencedStep
  <1>2. ReferencedEq(f, prog, Len(prog))
    BY <1>1, ReferencedExists
  <1> HIDE DEF f
  <1>3. \A n \in 0..Len(prog) : f[n] = IF n = 0 THEN {} ELSE ReferencedStep(prog, n, f[n - 1])
    BY <1>2 DEF ReferencedEq
  <1> QED BY <1>3 DEF f

EnvsStep(prog, n, env) == Insert(env, prog[n].output, TermOf(prog[n], env))

EnvsEq(f, prog, m) ==
    f = [n \in 0..m |-> IF n = 0 THEN [v \in {} |-> <<"undef">>] ELSE EnvsStep(prog, n, f[n - 1])]

LEMMA EnvsExists ==
    ASSUME NEW prog, NEW m \in Nat
    PROVE  \E f : EnvsEq(f, prog, m)
  <1> DEFINE G == {n \in Nat : \E f : EnvsEq(f, prog, n)}
  <1>1. 0 \in G
    <2> DEFINE f == [n \in 0..0 |-> [v \in {} |-> <<"undef">>]]
    <2>1. \A n \in 0..0 : f[n] = IF n = 0 THEN [v \in {} |-> <<"undef">>] ELSE EnvsStep(prog, n, f[n - 1])
      OBVIOUS
    <2>2. EnvsEq(f, prog, 0)
      BY <2>1 DEF EnvsEq
    <2> HIDE DEF f
    <2> QED BY <2>2
  <1>2. ASSUME NEW n \in Nat, n \in G PROVE n + 1 \in G
    <2>1. PICK f : EnvsEq(f, prog, n)
      BY <1>2
    <2> DEFINE x == EnvsStep(prog, n + 1, f[n])
               g == [i \in 0..(n + 1) |-> IF i = n + 1 THEN x ELSE f[i]]
    <2>2. \A i \in 0..n : f[i] = IF i = 0 THEN [v \in {} |-> <<"undef">>] ELSE EnvsStep(prog, i, f[i - 1])
      BY <2>1 DEF EnvsEq
    <2>3. (\A i \in 0..n : g[i] = f[i]) /\ g[n + 1] = x
      OBVIOUS
    <2>4. g = [i \in 0..(n + 1) |-> g[i]]
      OBVIOUS
    <2> HIDE DEF g
    <2>5. ASSUME NEW i \in 0..(n + 1)
          PROVE  g[i] = IF i = 0 THEN [v \in {} |-> <<"undef">>] ELSE EnvsStep(prog, i, g[i - 1])
      <3>1. CASE i = n + 1
        <4>1. i - 1 = n /\ g[i - 1] = f[n] /\ i # 0
          BY <3>1, <2>3
        <4> QED BY <4>1, <3>1, <2>3
      <3>2. CASE i # n + 1
        <4>1. i \in 0..n /\ g[i] = f[i] /\ (i # 0 => g[i - 1] = f[i - 1])
          BY <3>2, <2>3
        <4> QED BY <4>1, <2>2
      <3> QED BY <3>1, <3>2
    <2>6. EnvsEq(g, prog, n + 1)
      BY <2>4, <2>5 DEF EnvsEq
    <2> QED BY <2>6
  <1>3. \A n \in Nat : n < m /\ n \in G => n + 1 \in G
    BY <1>2
  <1> HIDE DEF G
  <1>4. m \in 0..m /\ \A n \in 0..m : n \in G
    BY <1>1, <1>3, Induction
  <1> QED BY <1>4 DEF G

LEMMA EnvsDef ==
    ASSUME NEW prog, Len(prog) \in Nat
    PROVE  /\ Envs(prog)[0] = [v \in {} |-> <<"undef">>]
           /\ \A n \in 1..Len(prog) : Envs(prog)[n] = EnvsStep(prog, n, Envs(prog)[n - 1])
  <1> DEFINE f == Envs(prog)
  <1>1. f = CHOOSE g : EnvsEq(g, prog, Len(prog))
    BY DEF Envs, EnvsEq, EnvsStep
  <1>2. EnvsEq(f, prog, Len(prog))
    BY <1>1, EnvsExists
  <1> HIDE DEF f
  <1>3. \A n \in 0..Len(prog) : f[n] = IF n = 0 THEN [v \in {} |-> <<"undef">>] ELSE EnvsStep(prog, n, f[n - 1])
    BY <1>2 DEF EnvsEq
  <1> QED BY <1>3 DEF f

GenerateStep(prog, n, acc) == GenerateOp(acc, prog[n])

GenerateEq(f, prog, m) ==
    f = [n \in 0..m |-> IF n = 0 THEN NoKernel ELSE GenerateStep(prog, n, f[n - 1])]

LEMMA GenerateExists ==
    ASSUME NEW prog, NEW m \in Nat
    PROVE  \E f : GenerateEq(f, prog, m)
  <1> DEFINE G == {n \in Nat : \E f : GenerateEq(f, prog, n)}
  <1>1. 0 \in G
    <2> DEFINE f == [n \in 0..0 |-> NoKernel]
    <2>1. \A n \in 0..0 : f[n] = IF n = 0 THEN NoKernel ELSE GenerateStep(prog, n, f[n - 1])
      OBVIOUS
    <2>2. GenerateEq(f, prog, 0)
      BY <2>1 DEF GenerateEq
    <2> HIDE DEF f
    <2> QED BY <2>2
  <1>2. ASSUME NEW n \in Nat, n \in G PROVE n + 1 \in G
    <2>1. PICK f : GenerateEq(f, prog, n)
      BY <1>2
    <2> DEFINE x == GenerateStep(prog, n + 1, f[n])
               g == [i \in 0..(n + 1) |-> IF i = n + 1 THEN x ELSE f[i]]
    <2>2. \A i \in 0..n : f[i] = IF i = 0 THEN NoKernel ELSE GenerateStep(prog, i, f[i - 1])
      BY <2>1 DEF GenerateEq
    <2>3. (\A i \in 0..n : g[i] = f[i]) /\ g[n + 1] = x
      OBVIOUS
    <2>4. g = [i \in 0..(n + 1) |-> g[i]]
      OBVIOUS
    <2> HIDE DEF g
    <2>5. ASSUME NEW i \in 0..(n + 1)
          PROVE  g[i] = IF i = 0 THEN NoKernel ELSE GenerateStep(prog, i, g[i - 1])
      <3>1. CASE i = n + 1
        <4>1. i - 1 = n /\ g[i - 1] = f[n] /\ i # 0
          BY <3>1, <2>3
        <4> QED BY <4>1, <3>1, <2>3
      <3>2. CASE i # n + 1
        <4>1. i \in 0..n /\ g[i] = f[i] /\ (i # 0 => g[i - 1] = f[i - 1])
          BY <3>2, <2>3
        <4> QED BY <4>1, <2>2
      <3> QED BY <3>1, <3>2
    <2>6. GenerateEq(g, prog, n + 1)
      BY <2>4, <2>5 DEF GenerateEq
    <2> QED BY <2>6
  <1>3. \A n \in Nat : n < m /\ n \in G => n + 1 \in G
    BY <1>2
  <1> HIDE DEF G
  <1>4. m \in 0..m /\ \A n \in 0..m : n \in G
    BY <1>1, <1>3, Induction
  <1> QED BY <1>4 DEF G

LEMMA GenerateDef ==
    ASSUME NEW prog, Len(prog) \in Nat
    PROVE  /\ Generate(prog)[0] = NoKernel
           /\ \A n \in 1..Len(prog) : Generate(prog)[n] = GenerateStep(prog, n, Generate(prog)[n - 1])
  <1> DEFINE f == Generate(prog)
  <1>1. f = CHOOSE g : GenerateEq(g, prog, Len(prog))
    BY DEF Generate, GenerateEq, GenerateStep
  <1>2. GenerateEq(f, prog, Len(prog))
    BY <1>1, GenerateExists
  <1> HIDE DEF f
  <1>3. \A n \in 0..Len(prog) : f[n] = IF n = 0 THEN NoKernel ELSE GenerateStep(prog, n, f[n - 1])
    BY <1>2 DEF GenerateEq
  <1> QED BY <1>3 DEF f

RunsStep(functions, n, env) ==
    LET op == functions[n].op
    IN  Insert(env, op.output, Body(op, [i \in DOMAIN op.inputs |-> ValueOf(env, op.inputs[i])]))

RunsEq(f, functions, m) ==
    f = [n \in 0..m |-> IF n = 0 THEN [v \in {} |-> <<"undef">>] ELSE RunsStep(functions, n, f[n - 1])]

LEMMA RunsExists ==
    ASSUME NEW functions, NEW m \in Nat
    PROVE  \E f : RunsEq(f, functions, m)
  <1> DEFINE G == {n \in Nat : \E f : RunsEq(f, functions, n)}
  <1>1. 0 \in G
    <2> DEFINE f == [n \in 0..0 |-> [v \in {} |-> <<"undef">>]]
    <2>1. \A n \in 0..0 : f[n] = IF n = 0 THEN [v \in {} |-> <<"undef">>] ELSE RunsStep(functions, n, f[n - 1])
      OBVIOUS
    <2>2. RunsEq(f, functions, 0)
      BY <2>1 DEF RunsEq
    <2> HIDE DEF f
    <2> QED BY <2>2
  <1>2. ASSUME NEW n \in Nat, n \in G PROVE n + 1 \in G
    <2>1. PICK f : RunsEq(f, functions, n)
      BY <1>2
    <2> DEFINE x == RunsStep(functions, n + 1, f[n])
               g == [i \in 0..(n + 1) |-> IF i = n + 1 THEN x ELSE f[i]]
    <2>2. \A i \in 0..n : f[i] = IF i = 0 THEN [v \in {} |-> <<"undef">>] ELSE RunsStep(functions, i, f[i - 1])
      BY <2>1 DEF RunsEq
    <2>3. (\A i \in 0..n : g[i] = f[i]) /\ g[n + 1] = x
      OBVIOUS
    <2>4. g = [i \in 0..(n + 1) |-> g[i]]
      OBVIOUS
    <2> HIDE DEF g
    <2>5. ASSUME NEW i \in 0..(n + 1)
          PROVE  g[i] = IF i = 0 THEN [v \in {} |-> <<"undef">>] ELSE RunsStep(functions, i, g[i - 1])
      <3>1. CASE i = n + 1
        <4>1. i - 1 = n /\ g[i - 1] = f[n] /\ i # 0
          BY <3>1, <2>3
        <4> QED BY <4>1, <3>1, <2>3
      <3>2. CASE i # n + 1
        <4>1. i \in 0..n /\ g[i] = f[i] /\ (i # 0 => g[i - 1] = f[i - 1])
          BY <3>2, <2>3
        <4> QED BY <4>1, <2>2
      <3> QED BY <3>1, <3>2
    <2>6. RunsEq(g, functions, n + 1)
      BY <2>4, <2>5 DEF RunsEq
    <2> QED BY <2>6
  <1>3. \A n \in Nat : n < m /\ n \in G => n + 1 \in G
    BY <1>2
  <1> HIDE DEF G
  <1>4. m \in 0..m /\ \A n \in 0..m : n \in G
    BY <1>1, <1>3, Induction
  <1> QED BY <1>4 DEF G

LEMMA RunsDef ==
    ASSUME NEW functions, Len(functions) \in Nat
    PROVE  /\ Runs(functions)[0] = [v \in {} |-> <<"undef">>]
           /\ \A n \in 1..Len(functions) : Runs(functions)[n] = RunsStep(functions, n, Runs(functions)[n - 1])
  <1> DEFINE f == Runs(functions)
  <1>1. f = CHOOSE g : RunsEq(g, functions, Len(functions))
    BY DEF Runs, RunsEq, RunsStep
  <1>2. RunsEq(f, functions, Len(functions))
    BY <1>1, RunsExists
  <1> HIDE DEF f
  <1>3. \A n \in 0..Len(functions) : f[n] = IF n = 0 THEN [v \in {} |-> <<"undef">>] ELSE RunsStep(functions, n, f[n - 1])
    BY <1>2 DEF RunsEq
  <1> QED BY <1>3 DEF f

-----------------------------------------------------------------------------
(* Operations and their meaning.                                           *)

Fields == {"id", "kind", "value", "inputs", "output", "fused", "tile"}
IsOp(op) == DOMAIN op = Fields /\ op = [f \in Fields |-> op[f]]

OpKinds == {"MatMul", "Add", "Mul", "Opaque", "UnaryFunc", "Relu", "Softmax", "Fill"}

\* An operation reads values older than the one it computes; a MatMul has its
\* two factors, and only a MatMul has absorbed another operation.
WellFormed(op) ==
    /\ IsOp(op)
    /\ op.kind \in OpKinds /\ op.fused \in {"None", "Relu", "Add"}
    /\ op.id \in Int /\ op.output \in Nat
    /\ IsSequence(op.inputs)
    /\ \A j \in DOMAIN op.inputs : op.inputs[j] \in Int /\ op.inputs[j] < op.output
    /\ op.kind = "MatMul" => 1 \in DOMAIN op.inputs /\ 2 \in DOMAIN op.inputs
    /\ op.kind # "MatMul" => op.fused = "None"

\* Numbers and outputs grow along the module, at every stage of the pipeline.
Ascending(prog) ==
    /\ IsSequence(prog)
    /\ \A k \in DOMAIN prog : WellFormed(prog[k])
    /\ \A k, l \in DOMAIN prog :
          k < l => prog[k].output < prog[l].output /\ prog[k].id < prog[l].id

\* Terms are tuples that begin with a tag.
Const(c) == <<"const", c>>
Ext(v) == <<"ext", v>>
Undef == <<"undef">>

LEMMA ConstTags ==
    ASSUME NEW c
    PROVE  Const(c)[1] = "const" /\ Const(c)[2] = c
  BY DEF Const

LEMMA ExtTag ==
    ASSUME NEW v
    PROVE  Ext(v)[1] = "ext"
  BY DEF Ext

LEMMA UndefTag == Undef[1] = "undef"
  BY DEF Undef

App(kind, args) == <<kind, args>>

LEMMA AppTags ==
    ASSUME NEW kind, NEW args
    PROVE  App(kind, args)[1] = kind /\ App(kind, args)[2] = args
  BY DEF App

Sum(terms, n) == <<"Add", terms, n>>

LEMMA SumTags ==
    ASSUME NEW terms, NEW n
    PROVE  Sum(terms, n)[1] = "Add" /\ Sum(terms, n)[2] = terms /\ Sum(terms, n)[3] = n
  BY DEF Sum

LEMMA ApplyConstant ==
    ASSUME NEW args, Constant(args)
    PROVE  /\ Apply("Add", args) = Const(args[1][2] + args[2][2])
           /\ Apply("Mul", args) = Const(args[1][2] * args[2][2])
  <1>1. Apply("Add", args) = Const(args[1][2] + args[2][2])
    BY DEF Apply, Const
  <1>2. Apply("Mul", args) = Const(args[1][2] * args[2][2])
    BY DEF Apply, Const
  <1> QED BY <1>1, <1>2

LEMMA ApplyAdd ==
    ASSUME NEW args, ~Constant(args)
    PROVE  Apply("Add", args) = Sum({args[i] : i \in DOMAIN args}, Len(args))
  BY DEF Apply, Sum

LEMMA ApplyMul ==
    ASSUME NEW args, ~Constant(args)
    PROVE  Apply("Mul", args) = App("Mul", args)
  BY DEF Apply, App

LEMMA ApplyOther ==
    ASSUME NEW args, NEW kind, kind \notin {"Add", "Mul"}
    PROVE  Apply(kind, args) = App(kind, args)
  BY DEF Apply, App

LEMMA ValueOfInput ==
    ASSUME NEW env, NEW v \in Int
    PROVE  /\ v < 0 => ValueOf(env, v) = Ext(v)
           /\ v >= 0 /\ v \in DOMAIN env => ValueOf(env, v) = env[v]
           /\ v >= 0 /\ v \notin DOMAIN env => ValueOf(env, v) = Undef
  <1>1. v < 0 => ValueOf(env, v) = Ext(v)
    BY Zenon DEF ValueOf, Ext
  <1>2. v >= 0 => ~(v < 0)
    OBVIOUS
  <1>3. ~(v < 0) /\ v \in DOMAIN env => ValueOf(env, v) = env[v]
    BY Zenon DEF ValueOf
  <1>4. ~(v < 0) /\ v \notin DOMAIN env => ValueOf(env, v) = Undef
    BY Zenon DEF ValueOf, Undef
  <1> QED BY <1>1, <1>2, <1>3, <1>4

\* The terms of the inputs.
Args(op, env) == [i \in DOMAIN op.inputs |-> ValueOf(env, op.inputs[i])]

LEMMA ArgsFacts ==
    ASSUME NEW op, NEW env
    PROVE  /\ DOMAIN Args(op, env) = DOMAIN op.inputs
           /\ Args(op, env) = [i \in DOMAIN op.inputs |-> Args(op, env)[i]]
           /\ \A i \in DOMAIN op.inputs : Args(op, env)[i] = ValueOf(env, op.inputs[i])
  BY DEF Args

\* What a fused operation is applied to.
Product(op, env) == Apply("MatMul", <<ValueOf(env, op.inputs[1]), ValueOf(env, op.inputs[2])>>)
Rest(op, env) == [i \in 1..(Len(op.inputs) - 2) |-> ValueOf(env, op.inputs[i + 2])]

LEMMA TermOfFill ==
    ASSUME NEW op, NEW env, op.kind = "Fill"
    PROVE  TermOf(op, env) = Const(op.value)
  BY DEF TermOf, Const

LEMMA TermOfPlain ==
    ASSUME NEW op, NEW env, op.kind # "Fill", op.fused = "None"
    PROVE  TermOf(op, env) = Apply(op.kind, Args(op, env))
  BY DEF TermOf, Args

LEMMA TermOfFused ==
    ASSUME NEW op, NEW env, op.kind = "MatMul", op.fused # "None"
    PROVE  TermOf(op, env) = Apply(op.fused, <<Product(op, env)>> \o Rest(op, env))
  BY DEF TermOf, Product, Rest

\* A term depends on the values read, and on nothing else.
LEMMA TermOfReads ==
    ASSUME NEW op, WellFormed(op), NEW e1, NEW e2,
           \A j \in DOMAIN op.inputs : ValueOf(e1, op.inputs[j]) = ValueOf(e2, op.inputs[j])
    PROVE  TermOf(op, e1) = TermOf(op, e2)
  <1>1. CASE op.kind = "Fill"
    BY <1>1, TermOfFill
  <1>2. CASE op.kind # "Fill" /\ op.fused = "None"
    <2>1. Args(op, e1) = Args(op, e2)
      BY DEF Args
    <2> QED BY <1>2, <2>1, TermOfPlain
  <1>3. CASE op.fused # "None"
    <2>0. op.kind = "MatMul" /\ 1 \in DOMAIN op.inputs /\ 2 \in DOMAIN op.inputs
      BY <1>3 DEF WellFormed
    <2>1. Product(op, e1) = Product(op, e2)
      BY <2>0 DEF Product
    <2>2. \A i \in 1..(Len(op.inputs) - 2) : i + 2 \in DOMAIN op.inputs
      <3>1. Len(op.inputs) \in Nat /\ DOMAIN op.inputs = 1..Len(op.inputs)
        BY SequenceFacts DEF WellFormed
      <3> QED BY <3>1
    <2>3. Rest(op, e1) = Rest(op, e2)
      BY <2>2 DEF Rest
    <2> QED BY <1>3, <2>0, <2>1, <2>3, TermOfFused
  <1> QED BY <1>1, <1>2, <1>3

\* A meaning of a module: for every output the term of its operation.
IsMeaning(M, prog) ==
    /\ DOMAIN M = Outputs(prog) /\ M = [v \in Outputs(prog) |-> M[v]]
    /\ \A k \in DOMAIN prog : M[prog[k].output] = TermOf(prog[k], M)

\* The values known after n operations are those of the first n operations,
\* each with the term it had when it was computed.
LEMMA EnvsFacts ==
    ASSUME NEW prog, Ascending(prog)
    PROVE  \A n \in 0..Len(prog) :
              LET env == Envs(prog)[n]
              IN  /\ DOMAIN env = {prog[k].output : k \in 1..n} /\ env = [v \in DOMAIN env |-> env[v]]
                  /\ \A k \in 1..n : env[prog[k].output] = TermOf(prog[k], Envs(prog)[k - 1])
  <1> DEFINE m == Len(prog)
             E == Envs(prog)
             G == {n \in Nat : /\ DOMAIN E[n] = {prog[k].output : k \in 1..n}
                               /\ E[n] = [v \in DOMAIN E[n] |-> E[n][v]]
                               /\ \A k \in 1..n : E[n][prog[k].output] = TermOf(prog[k], E[k - 1])}
  <1>1. m \in Nat /\ DOMAIN prog = 1..m
    BY SequenceFacts DEF Ascending
  <1>2. /\ E[0] = [v \in {} |-> <<"undef">>]
        /\ \A n \in 1..m : E[n] = EnvsStep(prog, n, E[n - 1])
    BY <1>1, EnvsDef
  <1> HIDE DEF m, E
  <1>3. 0 \in G
    BY <1>2
  <1>4. ASSUME NEW n \in Nat, n < m, n \in G PROVE n + 1 \in G
    <2> DEFINE op == prog[n + 1]
    <2>1. n + 1 \in 1..m /\ (n + 1) - 1 = n
      BY <1>4, <1>1
    <2>2. E[n + 1] = Insert(E[n], op.output, TermOf(op, E[n]))
      BY <1>2, <2>1 DEF EnvsStep
    <2>3. /\ DOMAIN E[n + 1] = DOMAIN E[n] \cup {op.output}
          /\ E[n + 1] = [v \in DOMAIN E[n + 1] |-> E[n + 1][v]]
          /\ E[n + 1][op.output] = TermOf(op, E[n])
          /\ \A v \in DOMAIN E[n] : v # op.output => E[n + 1][v] = E[n][v]
      <3> DEFINE e == E[n]
                 new == E[n + 1]
                 key == op.output
                 t == TermOf(op, E[n])
      <3>1. new = Insert(e, key, t)
        BY <2>2
      <3> HIDE DEF e, new, key, t
      <3>2. /\ DOMAIN new = DOMAIN e \cup {key} /\ new = [v \in DOMAIN new |-> new[v]]
            /\ new[key] = t
            /\ \A v \in DOMAIN e : v # key => new[v] = e[v]
        BY <3>1 DEF Insert
      <3> QED BY <3>2 DEF e, new, key, t
    <2>4. \A k \in 1..n : k \in DOMAIN prog /\ k < n + 1 /\ n + 1 \in DOMAIN prog
      BY <1>1, <2>1
    <2>5. ASSUME NEW k \in 1..n PROVE prog[k].output # op.output /\ prog[k].output \in DOMAIN E[n]
      <3>1. prog[k].output < op.output /\ prog[k].output \in Nat /\ op.output \in Nat
        BY <2>4 DEF Ascending, WellFormed
      <3>2. DOMAIN E[n] = {prog[l].output : l \in 1..n}
        BY <1>4
      <3> QED BY <3>1, <3>2
    <2> HIDE DEF op
    <2>6. \A k \in 1..n : E[n + 1][prog[k].output] = TermOf(prog[k], E[k - 1])
      BY <1>4, <2>3, <2>5
    <2>7. \A k \in 1..(n + 1) : k \in 1..n \/ k = n + 1
      OBVIOUS
    <2>8. \A k \in 1..(n + 1) : E[n + 1][prog[k].output] = TermOf(prog[k], E[k - 1])
      BY <2>1, <2>3, <2>6, <2>7 DEF op
    <2>9. DOMAIN E[n + 1] = {prog[k].output : k \in 1..(n + 1)}
      <3>1. DOMAIN E[n] = {prog[k].output : k \in 1..n}
        BY <1>4
      <3>2. n + 1 \in 1..(n + 1) /\ \A k \in 1..n : k \in 1..(n + 1)
        OBVIOUS
      <3> QED BY <2>3, <2>7, <3>1, <3>2 DEF op
    <2> QED BY <2>3, <2>8, <2>9
  <1>5. \A n \in Nat : n < m /\ n \in G => n + 1 \in G
    BY <1>4
  <1> HIDE DEF G
  <1>6. \A n \in 0..m : n \in G
    BY <1>1, <1>3, <1>5, Induction
  <1> QED BY <1>6 DEF G, E, m

LEMMA MeaningFacts ==
    ASSUME NEW prog, Ascending(prog)
    PROVE  IsMeaning(Meaning(prog), prog)
  <1> DEFINE m == Len(prog)
             E == Envs(prog)
             M == Meaning(prog)
  <1>1. m \in Nat /\ DOMAIN prog = 1..m
    BY SequenceFacts DEF Ascending
  <1>2. \A n \in 0..m : /\ DOMAIN E[n] = {prog[k].output : k \in 1..n}
                        /\ E[n] = [v \in DOMAIN E[n] |-> E[n][v]]
                        /\ \A k \in 1..n : E[n][prog[k].output] = TermOf(prog[k], E[k - 1])
    BY EnvsFacts
  <1>3. M = E[m] /\ m \in 0..m
    BY <1>1 DEF Meaning
  <1> HIDE DEF E, M, m
  <1>4. DOMAIN M = Outputs(prog) /\ M = [v \in Outputs(prog) |-> M[v]]
    BY <1>1, <1>2, <1>3 DEF Outputs
  <1>5. ASSUME NEW k \in DOMAIN prog PROVE M[prog[k].output] = TermOf(prog[k], M)
    <2>1. k \in 1..m /\ k - 1 \in 0..m
      BY <1>1
    <2>2. M[prog[k].output] = TermOf(prog[k], E[k - 1])
      BY <1>2, <1>3, <2>1
    <2>3. ASSUME NEW j \in DOMAIN prog[k].inputs
          PROVE  ValueOf(E[k - 1], prog[k].inputs[j]) = ValueOf(M, prog[k].inputs[j])
      <3> DEFINE v == prog[k].inputs[j]
      <3>1. v \in Int /\ v < prog[k].output /\ prog[k].output \in Nat
        BY DEF Ascending, WellFormed
      <3>2. DOMAIN E[k - 1] = {prog[l].output : l \in 1..(k - 1)}
        BY <1>2, <2>1
      <3> HIDE DEF v
      <3>3. CASE v \in DOMAIN E[k - 1]
        <4>1. PICK l \in 1..(k - 1) : v = prog[l].output
          BY <3>2, <3>3
        <4>2. l \in 1..m
          BY <1>1, <2>1
        <4>3. /\ E[k - 1][prog[l].output] = TermOf(prog[l], E[l - 1])
              /\ E[m][prog[l].output] = TermOf(prog[l], E[l - 1])
          BY <1>2, <1>3, <2>1, <4>2
        <4>4. v \in DOMAIN M
          BY <1>1, <1>4, <4>1, <4>2 DEF Outputs
        <4> QED BY <1>3, <3>3, <4>1, <4>3, <4>4 DEF ValueOf, v
      <3>4. CASE v \notin DOMAIN E[k - 1]
        <4>1. v \notin DOMAIN M
          <5> SUFFICES ASSUME v \in DOMAIN M PROVE FALSE
            OBVIOUS
          <5>1. PICK l \in DOMAIN prog : v = prog[l].output
            BY <1>4 DEF Outputs
          <5>2. ~(k < l) /\ k # l
            BY <3>1, <5>1 DEF Ascending
          <5>3. l \in 1..(k - 1)
            BY <1>1, <5>2
          <5> QED BY <3>2, <3>4, <5>1, <5>3
        <4> QED BY <3>4, <4>1 DEF ValueOf, v
      <3> QED BY <3>3, <3>4
    <2>4. WellFormed(prog[k])
      BY DEF Ascending
    <2> QED BY <2>2, <2>3, <2>4, TermOfReads
  <1> QED BY <1>4, <1>5 DEF IsMeaning, M

\* If a function satisfies the equations of a module and has a value for the
\* same inputs, the module means what the function says.
LEMMA MeaningAgrees ==
    ASSUME NEW prog, Ascending(prog), NEW M,
           \A k \in DOMAIN prog : TermOf(prog[k], M) = M[prog[k].output],
           \A v \in Outputs(prog) : v \in DOMAIN M,
           \A k \in DOMAIN prog : \A j \in DOMAIN prog[k].inputs :
              prog[k].inputs[j] >= 0 /\ prog[k].inputs[j] \in DOMAIN M
                 => prog[k].inputs[j] \in Outputs(prog)
    PROVE  \A v \in Outputs(prog) : Meaning(prog)[v] = M[v]
  <1> DEFINE N == Meaning(prog)
             m == Len(prog)
             G == {k \in Nat : k \in 1..m => N[prog[k].output] = M[prog[k].output]}
  <1>1. m \in Nat /\ DOMAIN prog = 1..m
    BY SequenceFacts DEF Ascending
  <1>2. IsMeaning(N, prog)
    BY MeaningFacts
  <1> HIDE DEF N, m
  <1>3. ASSUME NEW k \in 1..m, \A l \in 1..(k - 1) : l \in G PROVE k \in G
    <2>1. ASSUME NEW j \in DOMAIN prog[k].inputs
          PROVE  ValueOf(N, prog[k].inputs[j]) = ValueOf(M, prog[k].inputs[j])
      <3> DEFINE v == prog[k].inputs[j]
      <3>1. v \in Int /\ v < prog[k].output /\ prog[k].output \in Nat
        BY <1>1 DEF Ascending, WellFormed
      <3>2. v >= 0 /\ v \in DOMAIN M => v \in Outputs(prog)
        BY <1>1
      <3> HIDE DEF v
      <3>3. CASE v \in Outputs(prog)
        <4>1. PICK l \in DOMAIN prog : v = prog[l].output
          BY <3>3 DEF Outputs
        <4>2. ~(k < l) /\ k # l
          BY <1>1, <3>1, <4>1 DEF Ascending
        <4>3. l \in 1..(k - 1) /\ l \in 1..m
          BY <1>1, <4>2
        <4>4. N[v] = M[v]
          BY <1>3, <4>1, <4>3
        <4> QED BY <1>2, <3>3, <4>4 DEF ValueOf, IsMeaning, v
      <3>4. CASE v \notin Outputs(prog)
        <4>1. v < 0 \/ (v \notin DOMAIN M /\ v \notin DOMAIN N)
          BY <1>2, <3>1, <3>2, <3>4 DEF IsMeaning
        <4> QED BY <4>1 DEF ValueOf, v
      <3> QED BY <3>3, <3>4
    <2>2. WellFormed(prog[k])
      BY <1>1 DEF Ascending
    <2>3. TermOf(prog[k], N) = TermOf(prog[k], M)
      BY <2>1, <2>2, TermOfReads
    <2>4. N[prog[k].output] = M[prog[k].output]
      BY <1>1, <1>2, <2>3 DEF IsMeaning
    <2> QED BY <2>4
  <1>4. \A k \in 1..m : (\A l \in 1..(k - 1) : l \in G) => k \in G
    BY <1>3
  <1> HIDE DEF G
  <1>5. \A k \in 1..m : k \in G
    BY <1>1, <1>4, StrongInduction
  <1>6. \A k \in 1..m : N[prog[k].output] = M[prog[k].output]
    BY <1>5 DEF G
  <1> QED BY <1>1, <1>6 DEF Outputs, N

-----------------------------------------------------------------------------
(* Constant folding.                                                       *)

\* A module in which operation i computes value i - 1 and nothing is fused.
IsPlain(prog) ==
    /\ IsSequence(prog)
    /\ \A i \in DOMAIN prog :
          /\ WellFormed(prog[i])
          /\ prog[i].id = i - 1 /\ prog[i].output = i - 1 /\ prog[i].fused = "None"
          /\ prog[i].kind \in {"Add", "Mul", "MatMul"} => DOMAIN prog[i].inputs = 1..2
          /\ prog[i].kind = "Relu" => DOMAIN prog[i].inputs = 1..1

\* A module as push_op and lift_ptx build it.
IsSource(prog) ==
    IsPlain(prog) /\ \A i \in DOMAIN prog : prog[i].kind = "Fill" => DOMAIN prog[i].inputs = {}

LEMMA PlainAscending ==
    ASSUME NEW S, IsPlain(S)
    PROVE  /\ Ascending(S)
           /\ Len(S) \in Nat /\ DOMAIN S = 1..Len(S)
           /\ \A v \in Outputs(S) : v \in Nat
           /\ \A v \in Nat : v < Len(S) => v + 1 \in DOMAIN S /\ S[v + 1].output = v /\ v \in Outputs(S)
  <1>1. Len(S) \in Nat /\ DOMAIN S = 1..Len(S)
    BY SequenceFacts DEF IsPlain
  <1>2. \A i \in DOMAIN S : WellFormed(S[i]) /\ S[i].id = i - 1 /\ S[i].output = i - 1
    BY DEF IsPlain
  <1>3. \A k, l \in DOMAIN S : k < l => S[k].output < S[l].output /\ S[k].id < S[l].id
    BY <1>1, <1>2
  <1>4. \A v \in Nat : v < Len(S) => v + 1 \in DOMAIN S /\ (v + 1) - 1 = v
    BY <1>1
  <1>5. \A v \in Nat : v < Len(S) => S[v + 1].output = v /\ v \in Outputs(S)
    BY <1>2, <1>4 DEF Outputs
  <1>6. \A v \in Outputs(S) : v \in Nat
    BY <1>2 DEF Outputs, WellFormed
  <1> QED BY <1>1, <1>2, <1>3, <1>4, <1>5, <1>6 DEF Ascending, IsPlain

\* Folding changes kind and value, if anything.
LEMMA FoldFacts ==
    ASSUME NEW op, IsOp(op), NEW C, NEW q, q = Fold(op, C)
    PROVE  /\ IsOp(q) /\ q.id = op.id /\ q.inputs = op.inputs /\ q.output = op.output
           /\ q.fused = op.fused
           /\ Foldable(op, C) => q.kind = "Fill"
           /\ ~Foldable(op, C) => q = op
  <1>1. CASE Foldable(op, C)
    <2> DEFINE x == FoldedValue(op.kind, IF op.inputs[1] \in DOMAIN C THEN C[op.inputs[1]] ELSE 0,
                                         IF op.inputs[2] \in DOMAIN C THEN C[op.inputs[2]] ELSE 0)
    <2>1. q = [op EXCEPT !.kind = "Fill", !.value = x]
      BY <1>1 DEF Fold
    <2> HIDE DEF x
    <2> QED BY <1>1, <2>1 DEF IsOp, Fields
  <1>2. CASE ~Foldable(op, C)
    BY <1>2 DEF Fold
  <1> QED BY <1>1, <1>2

LEMMA FoldValue ==
    ASSUME NEW op, IsOp(op), NEW C, Foldable(op, C), DOMAIN op.inputs = 1..2
    PROVE  /\ op.inputs[1] \in DOMAIN C /\ op.inputs[2] \in DOMAIN C
           /\ Fold(op, C).value = FoldedValue(op.kind, C[op.inputs[1]], C[op.inputs[2]])
  <1> DEFINE x == FoldedValue(op.kind, C[op.inputs[1]], C[op.inputs[2]])
  <1>1. op.inputs[1] \in DOMAIN C /\ op.inputs[2] \in DOMAIN C
    BY DEF Foldable, Inputs
  <1>2. Fold(op, C) = [op EXCEPT !.kind = "Fill", !.value = x]
    BY <1>1 DEF Fold
  <1> HIDE DEF x
  <1>3. Fold(op, C).value = x
    BY <1>2 DEF IsOp, Fields
  <1> QED BY <1>1, <1>3 DEF x

\* What folding takes for a constant is one.
AreConstants(C, M) ==
    \A v \in DOMAIN C : v \in Nat /\ v \in DOMAIN M /\ M[v] = Const(C[v])

LEMMA FoldTerm ==
    ASSUME NEW op, WellFormed(op), op.fused = "None",
           op.kind \in {"Add", "Mul"} => DOMAIN op.inputs = 1..2,
           NEW C, NEW M, AreConstants(C, M)
    PROVE  /\ TermOf(Fold(op, C), M) = TermOf(op, M)
           /\ Fold(op, C).kind = "Fill" => TermOf(op, M) = Const(Fold(op, C).value)
  <1> DEFINE q == Fold(op, C)
  <1>0. IsOp(op)
    BY DEF WellFormed
  <1>1. CASE ~Foldable(op, C)
    <2>1. q = op
      BY <1>0, <1>1, FoldFacts
    <2> QED BY <2>1, TermOfFill
  <1>2. CASE Foldable(op, C)
    <2> DEFINE a == op.inputs[1]
               b == op.inputs[2]
               args == Args(op, M)
    <2>1. op.kind \in {"Add", "Mul"} /\ DOMAIN op.inputs = 1..2
      BY <1>2 DEF Foldable
    <2>2. q.kind = "Fill" /\ q.value = FoldedValue(op.kind, C[a], C[b]) /\ a \in DOMAIN C /\ b \in DOMAIN C
      BY <1>0, <1>2, <2>1, FoldFacts, FoldValue
    <2>3. ValueOf(M, a) = Const(C[a]) /\ ValueOf(M, b) = Const(C[b])
      <3>1. a \in Nat /\ b \in Nat /\ a \in DOMAIN M /\ b \in DOMAIN M
            /\ M[a] = Const(C[a]) /\ M[b] = Const(C[b])
        BY <2>2 DEF AreConstants
      <3> HIDE DEF a, b
      <3> QED BY <3>1, ValueOfInput
    <2>4. DOMAIN args = 1..2 /\ args[1] = Const(C[a]) /\ args[2] = Const(C[b])
      <3>1. DOMAIN args = 1..2 /\ args[1] = ValueOf(M, a) /\ args[2] = ValueOf(M, b)
        BY <2>1, ArgsFacts
      <3> QED BY <2>3, <3>1
    <2> HIDE DEF args, a, b, q
    <2>5. Constant(args) /\ args[1][2] = C[a] /\ args[2][2] = C[b]
      BY <2>4, ConstTags DEF Constant
    <2>6. TermOf(op, M) = Apply(op.kind, args)
      BY <2>1, TermOfPlain DEF args
    <2>7. TermOf(op, M) = Const(q.value)
      <3>1. CASE op.kind = "Add"
        BY <3>1, <2>2, <2>5, <2>6, ApplyConstant DEF FoldedValue
      <3>2. CASE op.kind = "Mul"
        BY <3>2, <2>2, <2>5, <2>6, ApplyConstant DEF FoldedValue
      <3> QED BY <2>1, <3>1, <3>2
    <2>8. TermOf(q, M) = Const(q.value)
      BY <2>2, TermOfFill
    <2> QED BY <2>7, <2>8 DEF q
  <1> QED BY <1>1, <1>2

LEMMA ConstantsFacts ==
    ASSUME NEW S, IsSource(S)
    PROVE  \A n \in 0..Len(S) : AreConstants(Constants(S)[n], Meaning(S))
  <1> DEFINE m == Len(S)
             C == Constants(S)
             M == Meaning(S)
             G == {n \in Nat : AreConstants(C[n], M)}
  <1>1. Ascending(S) /\ m \in Nat /\ DOMAIN S = 1..m
    BY PlainAscending DEF IsSource
  <1>2. C[0] = [v \in {} |-> 0] /\ \A n \in 1..m : C[n] = ConstantsStep(S, n, C[n - 1])
    BY <1>1, ConstantsDef
  <1>3. IsMeaning(M, S)
    BY <1>1, MeaningFacts
  <1> HIDE DEF m, C, M
  <1>4. 0 \in G
    BY <1>2 DEF AreConstants
  <1>5. ASSUME NEW n \in Nat, n < m, n \in G PROVE n + 1 \in G
    <2> DEFINE op == Fold(S[n + 1], C[n])
               e == C[n]
               new == C[n + 1]
               key == op.output
               t == op.value
    <2>1. n + 1 \in 1..m /\ (n + 1) - 1 = n /\ AreConstants(e, M)
      BY <1>5, <1>1
    <2>2. new = IF op.kind = "Fill" THEN Insert(e, key, t) ELSE e
      BY <1>2, <2>1 DEF ConstantsStep
    <2>3. /\ WellFormed(S[n + 1]) /\ S[n + 1].fused = "None"
          /\ S[n + 1].kind \in {"Add", "Mul"} => DOMAIN S[n + 1].inputs = 1..2
      BY <1>1, <2>1 DEF IsSource, IsPlain
    <2>4. op.kind = "Fill" => TermOf(S[n + 1], M) = Const(t)
      BY <2>1, <2>3, FoldTerm
    <2>5. key = S[n + 1].output /\ key \in Nat /\ key \in DOMAIN M /\ M[key] = TermOf(S[n + 1], M)
      <3>1. IsOp(S[n + 1]) /\ S[n + 1].output \in Nat
        BY <2>3 DEF WellFormed
      <3>2. key = S[n + 1].output
        BY <3>1, FoldFacts
      <3> QED BY <1>1, <1>3, <2>1, <3>1, <3>2 DEF IsMeaning, Outputs
    <2>6. CASE op.kind = "Fill"
      <3>1. new = Insert(e, key, t) /\ M[key] = Const(t) /\ key \in Nat /\ key \in DOMAIN M
        BY <2>2, <2>4, <2>5, <2>6
      <3> HIDE DEF new, e, key, t
      <3>2. /\ DOMAIN new = DOMAIN e \cup {key} /\ new[key] = t
            /\ \A v \in DOMAIN e : v # key => new[v] = e[v]
        BY <3>1 DEF Insert
      <3>3. AreConstants(new, M)
        BY <2>1, <3>1, <3>2 DEF AreConstants
      <3> QED BY <3>3 DEF new
    <2>7. CASE op.kind # "Fill"
      BY <2>1, <2>2, <2>7
    <2> QED BY <2>6, <2>7
  <1>6. \A n \in Nat : n < m /\ n \in G => n + 1 \in G
    BY <1>5
  <1> HIDE DEF G
  <1>7. \A n \in 0..m : n \in G
    BY <1>1, <1>4, <1>6, Induction
  <1> QED BY <1>7 DEF G, C, M, m

\* The folded module.
LEMMA FoldedFacts ==
    ASSUME NEW S, IsSource(S), NEW F, F = Folded(S)
    PROVE  /\ IsSequence(F) /\ DOMAIN F = DOMAIN S /\ Len(F) = Len(S)
           /\ \A i \in DOMAIN S :
                 /\ WellFormed(F[i])
                 /\ F[i].id = S[i].id /\ F[i].inputs = S[i].inputs
                 /\ F[i].output = S[i].output /\ F[i].fused = "None"
                 /\ F[i].kind = "Fill" \/ F[i] = S[i]
                 /\ F[i].kind = "Fill" => TermOf(S[i], Meaning(S)) = Const(F[i].value)
                 /\ TermOf(F[i], Meaning(S)) = TermOf(S[i], Meaning(S))
  <1>1. Ascending(S) /\ Len(S) \in Nat /\ DOMAIN S = 1..Len(S)
    BY PlainAscending DEF IsSource
  <1>2. DOMAIN F = 1..Len(S) /\ F = [i \in 1..Len(S) |-> F[i]]
        /\ \A i \in 1..Len(S) : F[i] = Fold(S[i], Constants(S)[i - 1])
    BY <1>1 DEF Folded
  <1>3. IsSequence(F) /\ Len(F) = Len(S)
    BY <1>1, <1>2, FunctionIsSequence
  <1>4. ASSUME NEW i \in DOMAIN S
        PROVE  /\ WellFormed(F[i])
               /\ F[i].id = S[i].id /\ F[i].inputs = S[i].inputs
               /\ F[i].output = S[i].output /\ F[i].fused = "None"
               /\ F[i].kind = "Fill" \/ F[i] = S[i]
               /\ F[i].kind = "Fill" => TermOf(S[i], Meaning(S)) = Const(F[i].value)
               /\ TermOf(F[i], Meaning(S)) = TermOf(S[i], Meaning(S))
    <2> DEFINE C == Constants(S)[i - 1]
               op == S[i]
               q == F[i]
    <2>1. q = Fold(op, C) /\ i - 1 \in 0..Len(S)
      BY <1>1, <1>2
    <2>2. /\ WellFormed(op) /\ op.fused = "None"
          /\ op.kind \in {"Add", "Mul"} => DOMAIN op.inputs = 1..2
      BY DEF IsSource, IsPlain
    <2>3. AreConstants(C, Meaning(S))
      BY <2>1, ConstantsFacts
    <2> HIDE DEF C, op, q
    <2>4. /\ TermOf(q, Meaning(S)) = TermOf(op, Meaning(S))
          /\ q.kind = "Fill" => TermOf(op, Meaning(S)) = Const(q.value)
      BY <2>1, <2>2, <2>3, FoldTerm
    <2>5. /\ IsOp(q) /\ q.id = op.id /\ q.inputs = op.inputs /\ q.output = op.output
          /\ q.fused = op.fused /\ (q.kind = "Fill" \/ q = op)
      BY <2>1, <2>2, FoldFacts DEF WellFormed
    <2>6. WellFormed(q)
      BY <2>2, <2>5 DEF WellFormed, OpKinds
    <2> QED BY <2>2, <2>4, <2>5, <2>6 DEF op, q
  <1> QED BY <1>1, <1>2, <1>3, <1>4

LEMMA FoldedMeaning ==
    ASSUME NEW S, IsSource(S)
    PROVE  Ascending(Folded(S)) /\ Meaning(Folded(S)) = Meaning(S)
  <1> DEFINE F == Folded(S)
             M == Meaning(S)
  <1>1. /\ IsSequence(F) /\ DOMAIN F = DOMAIN S
        /\ \A i \in DOMAIN S :
              /\ WellFormed(F[i])
              /\ F[i].id = S[i].id /\ F[i].inputs = S[i].inputs /\ F[i].output = S[i].output
              /\ TermOf(F[i], M) = TermOf(S[i], M)
    BY FoldedFacts
  <1>2. Ascending(S) /\ IsMeaning(M, S)
    BY PlainAscending, MeaningFacts DEF IsSource
  <1> HIDE DEF F, M
  <1>3. Ascending(F)
    BY <1>1, <1>2 DEF Ascending
  <1>4. Outputs(F) = Outputs(S)
    BY <1>1 DEF Outputs
  <1>5. \A k \in DOMAIN F : TermOf(F[k], M) = M[F[k].output]
    BY <1>1, <1>2 DEF IsMeaning
  <1>6. \A v \in Outputs(F) : v \in DOMAIN M
    BY <1>2, <1>4 DEF IsMeaning
  <1>7. \A k \in DOMAIN F : \A j \in DOMAIN F[k].inputs :
           F[k].inputs[j] >= 0 /\ F[k].inputs[j] \in DOMAIN M => F[k].inputs[j] \in Outputs(F)
    BY <1>2, <1>4 DEF IsMeaning
  <1>8. \A v \in Outputs(F) : Meaning(F)[v] = M[v]
    BY <1>3, <1>5, <1>6, <1>7, MeaningAgrees
  <1>9. IsMeaning(Meaning(F), F)
    BY <1>3, MeaningFacts
  <1>10. Meaning(F) = M
    <2> DEFINE N == Meaning(F)
    <2> HIDE DEF N
    <2>1. N = [v \in Outputs(S) |-> N[v]] /\ M = [v \in Outputs(S) |-> M[v]]
          /\ \A v \in Outputs(S) : N[v] = M[v]
      BY <1>2, <1>4, <1>8, <1>9 DEF IsMeaning, N
    <2> QED BY <2>1 DEF N
  <1> QED BY <1>3, <1>10 DEF F, M

LEMMA FoldedPlain ==
    ASSUME NEW S, IsSource(S)
    PROVE  IsPlain(Folded(S))
  <1> DEFINE F == Folded(S)
  <1>1. /\ IsSequence(F) /\ DOMAIN F = DOMAIN S
        /\ \A i \in DOMAIN S :
              /\ WellFormed(F[i])
              /\ F[i].id = S[i].id /\ F[i].output = S[i].output /\ F[i].fused = "None"
              /\ F[i].kind = "Fill" \/ F[i] = S[i]
    BY FoldedFacts
  <1> HIDE DEF F
  <1>2. IsPlain(S)
    BY DEF IsSource
  <1>3. IsPlain(F)
    BY <1>1, <1>2 DEF IsPlain
  <1> QED BY <1>3 DEF F

-----------------------------------------------------------------------------
(* Loop tiling and dead code elimination.                                  *)

\* A term does not depend on numbers and annotations.
LEMMA TermOfFields ==
    ASSUME NEW op, NEW q, WellFormed(op), NEW env,
           q.kind = op.kind, q.value = op.value, q.inputs = op.inputs, q.fused = op.fused
    PROVE  TermOf(q, env) = TermOf(op, env)
  <1>1. CASE op.kind = "Fill"
    BY <1>1, TermOfFill
  <1>2. CASE op.kind # "Fill" /\ op.fused = "None"
    <2>1. Args(q, env) = Args(op, env)
      BY DEF Args
    <2> QED BY <1>2, <2>1, TermOfPlain
  <1>3. CASE op.fused # "None"
    <2>1. op.kind = "MatMul"
      BY <1>3 DEF WellFormed
    <2>2. Product(q, env) = Product(op, env) /\ Rest(q, env) = Rest(op, env)
      BY DEF Product, Rest
    <2> QED BY <1>3, <2>1, <2>2, TermOfFused
  <1> QED BY <1>1, <1>2, <1>3

LEMMA TiledFacts ==
    ASSUME NEW U, Ascending(U), NEW target, NEW T, T = Tiled(U, target)
    PROVE  /\ Ascending(T) /\ DOMAIN T = DOMAIN U /\ Len(T) = Len(U) /\ Outputs(T) = Outputs(U)
           /\ \A k \in DOMAIN U :
                 /\ T[k].id = U[k].id /\ T[k].kind = U[k].kind /\ T[k].fused = U[k].fused
                 /\ T[k].inputs = U[k].inputs /\ T[k].output = U[k].output
           /\ \A v \in Outputs(U) : Meaning(T)[v] = Meaning(U)[v]
  <1> DEFINE M == Meaning(U)
  <1>1. Len(U) \in Nat /\ DOMAIN U = 1..Len(U) /\ \A k \in DOMAIN U : WellFormed(U[k])
    BY SequenceFacts DEF Ascending
  <1>2. IsMeaning(M, U)
    BY MeaningFacts
  <1> HIDE DEF M
  <1>3. /\ DOMAIN T = 1..Len(U) /\ T = [k \in 1..Len(U) |-> T[k]]
        /\ \A k \in 1..Len(U) : T[k] = IF U[k].kind = "MatMul"
                                       THEN [U[k] EXCEPT !.tile = tile_size(target)] ELSE U[k]
    BY <1>1 DEF Tiled
  <1>4. IsSequence(T) /\ Len(T) = Len(U)
    BY <1>1, <1>3, FunctionIsSequence
  <1>5. ASSUME NEW k \in DOMAIN U
        PROVE  /\ WellFormed(T[k])
               /\ T[k].id = U[k].id /\ T[k].kind = U[k].kind /\ T[k].fused = U[k].fused
               /\ T[k].inputs = U[k].inputs /\ T[k].output = U[k].output
               /\ TermOf(T[k], M) = TermOf(U[k], M)
    <2> DEFINE op == U[k]
               q == T[k]
               x == tile_size(target)
    <2>1. WellFormed(op) /\ IsOp(op) /\ q = IF op.kind = "MatMul" THEN [op EXCEPT !.tile = x] ELSE op
      BY <1>1, <1>3 DEF WellFormed
    <2> HIDE DEF op, q, x
    <2>2. /\ IsOp(q) /\ q.id = op.id /\ q.kind = op.kind /\ q.value = op.value
          /\ q.inputs = op.inputs /\ q.output = op.output /\ q.fused = op.fused
      BY <2>1 DEF IsOp, Fields
    <2>3. WellFormed(q)
      BY <2>1, <2>2 DEF WellFormed
    <2>4. TermOf(q, M) = TermOf(op, M)
      BY <2>1, <2>2, TermOfFields
    <2> QED BY <2>2, <2>3, <2>4 DEF op, q
  <1>6. DOMAIN T = DOMAIN U
    BY <1>1, <1>3
  <1>7. Ascending(T)
    BY <1>4, <1>5, <1>6 DEF Ascending
  <1>8. Outputs(T) = Outputs(U)
    BY <1>5, <1>6 DEF Outputs
  <1>9. \A k \in DOMAIN T : TermOf(T[k], M) = M[T[k].output]
    BY <1>2, <1>5, <1>6 DEF IsMeaning
  <1>10. /\ \A v \in Outputs(T) : v \in DOMAIN M
         /\ \A k \in DOMAIN T : \A j \in DOMAIN T[k].inputs :
               T[k].inputs[j] >= 0 /\ T[k].inputs[j] \in DOMAIN M => T[k].inputs[j] \in Outputs(T)
    BY <1>2, <1>8 DEF IsMeaning
  <1>11. \A v \in Outputs(T) : Meaning(T)[v] = M[v]
    BY <1>7, <1>9, <1>10, MeaningAgrees
  <1> QED BY <1>4, <1>5, <1>6, <1>7, <1>8, <1>11 DEF M

\* The values referenced after n turns are the inputs of the operations found
\* active so far.
LEMMA ReferencedFacts ==
    ASSUME NEW T, Len(T) \in Nat, DOMAIN T = 1..Len(T)
    PROVE  \A n \in 0..Len(T) : \A v :
              v \in Referenced(T)[n] <=> \E j \in Active(T) : j > Len(T) - n /\ v \in Inputs(T[j])
  <1> DEFINE m == Len(T)
             R == Referenced(T)
             A == Active(T)
             G == {n \in Nat : \A v : v \in R[n] <=> \E j \in A : j > m - n /\ v \in Inputs(T[j])}
  <1>1. R[0] = {} /\ \A n \in 1..m : R[n] = Mark(T, T[m - n + 1], R[n - 1])
    BY ReferencedDef DEF ReferencedStep
  <1>2. \A i \in 1..m : i \in A <=> IsRoot(T, T[i]) \/ T[i].output \in R[m - i]
    BY DEF Active
  <1>3. \A j \in A : j \in 1..m
    BY DEF Active
  <1>m. m \in Nat
    OBVIOUS
  <1> HIDE DEF m, R, A
  <1>4. 0 \in G
    BY <1>1, <1>3, <1>m
  <1>5. ASSUME NEW n \in Nat, n < m, n \in G PROVE n + 1 \in G
    <2> DEFINE i == m - n
    <2>1. /\ i \in 1..m /\ m - i = n /\ n + 1 \in 1..m
          /\ (n + 1) - 1 = n /\ m - (n + 1) + 1 = i /\ m - (n + 1) = i - 1
      BY <1>5, <1>m
    <2>2. R[n + 1] = Mark(T, T[i], R[n])
      BY <1>1, <2>1
    <2>3. i \in A <=> IsRoot(T, T[i]) \/ T[i].output \in R[n]
      BY <1>2, <2>1
    <2>4. \A v : v \in R[n] <=> \E j \in A : j > i /\ v \in Inputs(T[j])
      BY <1>5
    <2> HIDE DEF i
    <2>5. \A v : v \in R[n + 1] <=> (v \in R[n] \/ (i \in A /\ v \in Inputs(T[i])))
      BY <2>2, <2>3 DEF Mark
    <2>6. \A j \in A : j > i - 1 <=> j > i \/ j = i
      BY <1>3, <2>1, <1>m
    <2>7. \A v : v \in R[n + 1] <=> \E j \in A : j > i - 1 /\ v \in Inputs(T[j])
      BY <2>4, <2>5, <2>6
    <2> QED BY <2>1, <2>7
  <1>6. \A n \in Nat : n < m /\ n \in G => n + 1 \in G
    BY <1>5
  <1> HIDE DEF G
  <1>7. \A n \in 0..m : n \in G
    BY <1>m, <1>4, <1>6, Induction
  <1> QED BY <1>7 DEF G, R, A, m

\* An operation is active if it is the root or a later active one reads it.
LEMMA ActiveFacts ==
    ASSUME NEW T, Len(T) \in Nat, DOMAIN T = 1..Len(T)
    PROVE  \A i \in DOMAIN T :
              i \in Active(T) <=> \/ IsRoot(T, T[i])
                                  \/ \E j \in Active(T) : j > i /\ T[i].output \in Inputs(T[j])
  <1> SUFFICES ASSUME NEW i \in DOMAIN T
               PROVE  i \in Active(T) <=> \/ IsRoot(T, T[i])
                                          \/ \E j \in Active(T) : j > i /\ T[i].output \in Inputs(T[j])
    OBVIOUS
  <1> DEFINE n == Len(T) - i
  <1>1. n \in 0..Len(T) /\ Len(T) - n = i
    OBVIOUS
  <1>2. T[i].output \in Referenced(T)[n] <=> \E j \in Active(T) : j > Len(T) - n /\ T[i].output \in Inputs(T[j])
    BY <1>1, ReferencedFacts
  <1>3. i \in Active(T) <=> IsRoot(T, T[i]) \/ T[i].output \in Referenced(T)[n]
    BY DEF Active
  <1> QED BY <1>1, <1>2, <1>3

\* Whoever reads a value comes after the operation that computes it.
LEMMA ReadersLater ==
    ASSUME NEW T, Ascending(T), NEW i \in DOMAIN T, NEW j \in DOMAIN T,
           T[i].output \in Inputs(T[j])
    PROVE  i < j
  <1>1. Len(T) \in Nat /\ DOMAIN T = 1..Len(T)
    BY SequenceFacts DEF Ascending
  <1>2. T[i].output < T[j].output /\ T[i].output \in Nat /\ T[j].output \in Nat
    BY DEF Inputs, Ascending, WellFormed
  <1>3. i # j /\ (j < i => T[j].output < T[i].output)
    BY <1>2 DEF Ascending
  <1> QED BY <1>1, <1>2, <1>3

LEMMA ActiveIsNeeded ==
    ASSUME NEW T, Ascending(T)
    PROVE  Active(T) = Needed(T) /\ ClosedUnderUse(T, Active(T))
  <1> DEFINE A == Active(T)
             m == Len(T)
  <1>1. m \in Nat /\ DOMAIN T = 1..m
    BY SequenceFacts DEF Ascending
  <1>2. \A i \in DOMAIN T : i \in A <=> \/ IsRoot(T, T[i])
                                        \/ \E j \in A : j > i /\ T[i].output \in Inputs(T[j])
    BY <1>1, ActiveFacts
  <1>3. A \subseteq DOMAIN T
    BY DEF Active
  <1> HIDE DEF A, m
  <1>4. ClosedUnderUse(T, A)
    <2>1. \A i \in DOMAIN T : T[i].id = Len(T) - 1 => i \in A
      BY <1>2 DEF IsRoot
    <2>2. ASSUME NEW i \in A, NEW j \in DOMAIN T, T[j].output \in Inputs(T[i]) PROVE j \in A
      <3>1. i \in DOMAIN T /\ j < i
        BY <1>3, <2>2, ReadersLater
      <3>2. i > j
        BY <1>1, <3>1
      <3> QED BY <1>2, <2>2, <3>2
    <2> QED BY <2>1, <2>2 DEF ClosedUnderUse
  <1>5. Needed(T) \subseteq A
    BY <1>3, <1>4 DEF Needed
  <1>6. ASSUME NEW C \in SUBSET DOMAIN T, ClosedUnderUse(T, C) PROVE A \subseteq C
    <2> DEFINE B == {n \in Nat : m - n \in A /\ m - n \notin C}
    <2> SUFFICES ASSUME NEW i \in A, i \notin C PROVE FALSE
      OBVIOUS
    <2>1. m - i \in Nat /\ m - (m - i) = i
      BY <1>1, <1>3
    <2>2. m - i \in B
      BY <2>1
    <2>3. PICK n \in B : \A k \in B : n <= k
      BY <2>2, LeastNumber
    <2> DEFINE l == m - n
    <2>4. l \in A /\ l \notin C /\ n \in Nat /\ l \in 1..m
      BY <1>1, <1>3, <2>3
    <2>5. ~IsRoot(T, T[l])
      BY <1>1, <1>6, <2>4 DEF ClosedUnderUse, IsRoot
    <2>6. PICK j \in A : j > l /\ T[l].output \in Inputs(T[j])
      BY <1>1, <1>2, <2>4, <2>5
    <2>7. j \notin C
      BY <1>1, <1>6, <2>4, <2>6 DEF ClosedUnderUse
    <2>8. j \in 1..m /\ m - j \in Nat /\ m - (m - j) = j /\ m - j < n
      BY <1>1, <1>3, <2>4, <2>6
    <2>9. m - j \in B
      BY <2>6, <2>7, <2>8
    <2> QED BY <2>3, <2>8, <2>9
  <1>7. A \subseteq Needed(T)
    BY <1>3, <1>6 DEF Needed
  <1> QED BY <1>4, <1>5, <1>7 DEF A

\* Keeping operations and whatever they read keeps their meaning.
LEMMA PickMeaning ==
    ASSUME NEW T, Ascending(T), NEW A \in SUBSET DOMAIN T,
           \A i \in A : \A l \in DOMAIN T : T[l].output \in Inputs(T[i]) => l \in A,
           NEW P, P = Pick(T, A)
    PROVE  /\ Ascending(P)
           /\ \A k \in DOMAIN P : \E i \in A : P[k] = T[i]
           /\ \A i \in A : \E k \in DOMAIN P : P[k] = T[i]
           /\ \A v \in Outputs(P) : Meaning(P)[v] = Meaning(T)[v]
  <1> DEFINE M == Meaning(T)
  <1>1. Len(T) \in Nat /\ DOMAIN T = 1..Len(T)
    BY SequenceFacts DEF Ascending
  <1>2. IsSequence(P) /\ IsSubsequence(P, T, A)
    BY <1>1, PickIsSubsequence
  <1>3. IsMeaning(M, T)
    BY MeaningFacts
  <1> HIDE DEF M
  <1>4. PICK at \in [DOMAIN P -> A] :
           /\ \A k \in DOMAIN P : P[k] = T[at[k]]
           /\ \A k, l \in DOMAIN P : k < l => at[k] < at[l]
           /\ \A i \in A : \E k \in DOMAIN P : at[k] = i
    BY <1>2 DEF IsSubsequence
  <1>5. \A k \in DOMAIN P : at[k] \in A /\ at[k] \in DOMAIN T
    BY <1>4
  <1>6. Ascending(P)
    BY <1>2, <1>4, <1>5 DEF Ascending
  <1>7. \A k \in DOMAIN P : TermOf(P[k], M) = M[P[k].output]
    BY <1>3, <1>4, <1>5 DEF IsMeaning
  <1>8. \A v \in Outputs(P) : v \in DOMAIN M
    BY <1>3, <1>4, <1>5 DEF IsMeaning, Outputs
  <1>9. ASSUME NEW k \in DOMAIN P, NEW j \in DOMAIN P[k].inputs, P[k].inputs[j] \in DOMAIN M
        PROVE  P[k].inputs[j] \in Outputs(P)
    <2>1. PICK l \in DOMAIN T : P[k].inputs[j] = T[l].output
      BY <1>3, <1>9 DEF IsMeaning, Outputs
    <2>2. T[l].output \in Inputs(T[at[k]])
      BY <1>4, <2>1 DEF Inputs
    <2>3. l \in A
      BY <1>5, <2>2
    <2>4. PICK q \in DOMAIN P : at[q] = l
      BY <1>4, <2>3
    <2> QED BY <1>4, <2>1, <2>4 DEF Outputs
  <1>10. \A v \in Outputs(P) : Meaning(P)[v] = M[v]
    BY <1>6, <1>7, <1>8, <1>9, MeaningAgrees
  <1>11. \A k \in DOMAIN P : \E i \in A : P[k] = T[i]
    BY <1>4, <1>5
  <1>12. \A i \in A : \E k \in DOMAIN P : P[k] = T[i]
    BY <1>4
  <1> QED BY <1>6, <1>10, <1>11, <1>12 DEF M

\* What dead code elimination keeps keeps its meaning.
LEMMA PrunedFacts ==
    ASSUME NEW T, Ascending(T), NEW P, P = Pruned(T)
    PROVE  /\ Ascending(P) /\ IsSubsequence(P, T, Needed(T))
           /\ \A k \in DOMAIN P : \E i \in DOMAIN T : P[k] = T[i]
           /\ \A i \in DOMAIN T : T[i].id = Len(T) - 1 => \E k \in DOMAIN P : P[k] = T[i]
           /\ \A v \in Outputs(P) : v \in Outputs(T) /\ Meaning(P)[v] = Meaning(T)[v]
  <1> DEFINE A == Active(T)
  <1>1. Len(T) \in Nat /\ DOMAIN T = 1..Len(T)
    BY SequenceFacts DEF Ascending
  <1>2. A = Needed(T) /\ ClosedUnderUse(T, A)
    BY ActiveIsNeeded
  <1>3. A \in SUBSET DOMAIN T
    BY DEF Active
  <1>4. P = Pick(T, A)
    BY DEF Pruned
  <1> HIDE DEF A
  <1>5. IsSubsequence(P, T, A)
    BY <1>1, <1>3, <1>4, PickIsSubsequence
  <1>6. \A i \in A : \A l \in DOMAIN T : T[l].output \in Inputs(T[i]) => l \in A
    BY <1>2 DEF ClosedUnderUse
  <1>7. /\ Ascending(P)
        /\ \A k \in DOMAIN P : \E i \in A : P[k] = T[i]
        /\ \A i \in A : \E k \in DOMAIN P : P[k] = T[i]
        /\ \A v \in Outputs(P) : Meaning(P)[v] = Meaning(T)[v]
    BY <1>3, <1>4, <1>6, PickMeaning
  <1>8. \A i \in DOMAIN T : T[i].id = Len(T) - 1 => i \in A
    BY <1>2 DEF ClosedUnderUse
  <1>9. \A v \in Outputs(P) : v \in Outputs(T)
    BY <1>3, <1>7 DEF Outputs
  <1> QED BY <1>2, <1>3, <1>5, <1>7, <1>8, <1>9

-----------------------------------------------------------------------------
(* Operator fusion: the fused operation.                                   *)

LEMMA LengthTwo ==
    ASSUME NEW s, IsSequence(s), DOMAIN s = 1..2
    PROVE  Len(s) = 2
  BY SequenceFacts

Concat(s, t) == s \o t

LEMMA ConcatFacts ==
    ASSUME NEW s, NEW t, IsSequence(s), DOMAIN s = 1..2, IsSequence(t), NEW c, c = Concat(s, t)
    PROVE  /\ IsSequence(c) /\ Len(c) = 2 + Len(t) /\ Len(t) \in Nat
           /\ c[1] = s[1] /\ c[2] = s[2]
           /\ Len(t) = 1 => c[3] = t[1]
  <1>1. PICK S : s \in Seq(S)
    BY DEF IsSequence
  <1>2. PICK Q : t \in Seq(Q)
    BY DEF IsSequence
  <1>3. s \in Seq(S \cup Q) /\ t \in Seq(S \cup Q)
    BY <1>1, <1>2
  <1>4. c \in Seq(S \cup Q) /\ Len(c) = Len(s) + Len(t) /\ Len(s) = 2 /\ Len(t) \in Nat
    BY <1>3, LengthTwo DEF Concat
  <1>5. \A i \in 1..(Len(s) + Len(t)) : c[i] = IF i <= Len(s) THEN s[i] ELSE t[i - Len(s)]
    BY <1>3, <1>4, ConcatProperties DEF Concat
  <1>6. c[1] = s[1] /\ c[2] = s[2]
    BY <1>4, <1>5
  <1>7. Len(t) = 1 => c[3] = t[1]
    BY <1>4, <1>5
  <1> QED BY <1>4, <1>6, <1>7 DEF IsSequence

\* The inputs of an addition other than the product it reads.
LEMMA OtherInputs ==
    ASSUME NEW s, IsSequence(s), DOMAIN s = 1..2, NEW v, s[1] = v \/ s[2] = v,
           NEW r, r = Pick(s, {i \in DOMAIN s : s[i] # v})
    PROVE  /\ IsSequence(r)
           /\ s[1] = v /\ s[2] = v => Len(r) = 0
           /\ s[1] # v => Len(r) = 1 /\ r[1] = s[1]
           /\ s[2] # v => Len(r) = 1 /\ r[1] = s[2]
  <1> DEFINE K == {i \in DOMAIN s : s[i] # v}
             f == PickTo(s, K)
  <1>1. Len(s) = 2
    BY SequenceFacts
  <1>2. /\ f[0] = <<>>
        /\ \A n \in 1..2 : f[n] = IF n \in K THEN Append(f[n - 1], s[n]) ELSE f[n - 1]
    BY <1>1, PickToDef
  <1>3. r = f[2]
    BY <1>1 DEF Pick
  <1>4. (1 \in K <=> s[1] # v) /\ (2 \in K <=> s[2] # v)
    OBVIOUS
  <1> HIDE DEF K, f
  <1>5. /\ f[1] = IF s[1] # v THEN Append(<<>>, s[1]) ELSE <<>>
        /\ f[2] = IF s[2] # v THEN Append(f[1], s[2]) ELSE f[1]
    <2>1. f[1] = IF 1 \in K THEN Append(f[1 - 1], s[1]) ELSE f[1 - 1]
      BY <1>2
    <2>2. f[2] = IF 2 \in K THEN Append(f[2 - 1], s[2]) ELSE f[2 - 1]
      BY <1>2
    <2>3. 1 - 1 = 0 /\ 2 - 1 = 1
      OBVIOUS
    <2> QED BY <1>2, <1>4, <2>1, <2>2, <2>3
  <1>6. Len(<<>>) = 0 /\ IsSequence(<<>>)
    BY EmptyIsSequence
  <1>7. \A x : IsSequence(Append(<<>>, x)) /\ Len(Append(<<>>, x)) = 1 /\ Append(<<>>, x)[1] = x
    <2> TAKE x
    <2>1. /\ IsSequence(Append(<<>>, x)) /\ Len(Append(<<>>, x)) = Len(<<>>) + 1
          /\ Append(<<>>, x)[Len(<<>>) + 1] = x
      BY <1>6, AppendSequence
    <2> QED BY <1>6, <2>1
  <1>8. CASE s[1] # v
    <2>1. r = Append(<<>>, s[1]) /\ s[2] = v
      BY <1>3, <1>5, <1>8
    <2> QED BY <1>7, <1>8, <2>1
  <1>9. CASE s[1] = v /\ s[2] # v
    <2>1. r = Append(<<>>, s[2])
      BY <1>3, <1>5, <1>9
    <2> QED BY <1>7, <1>9, <2>1
  <1>10. CASE s[1] = v /\ s[2] = v
    <2>1. r = <<>>
      BY <1>3, <1>5, <1>10
    <2> QED BY <1>6, <1>10, <2>1
  <1> QED BY <1>8, <1>9, <1>10

\* A product and the operation that absorbs it.
FusionPair(op, next) ==
    /\ WellFormed(op) /\ WellFormed(next) /\ Fusable(op, next)
    /\ op.output < next.output /\ op.fused = "None" /\ next.fused = "None"
    /\ DOMAIN op.inputs = 1..2
    /\ next.kind = "Add" => DOMAIN next.inputs = 1..2
    /\ next.kind = "Relu" => DOMAIN next.inputs = 1..1

\* The fused operation has the factors, and what an addition adds to the
\* product: nothing, if it adds the product to itself.
LEMMA FusedFacts ==
    ASSUME NEW op, NEW next, FusionPair(op, next), NEW q, q = Fused(op, next)
    PROVE  /\ IsOp(q) /\ q.id = op.id /\ q.kind = "MatMul" /\ q.fused = next.kind /\ q.output = next.output
           /\ IsSequence(q.inputs) /\ 1 \in DOMAIN q.inputs /\ 2 \in DOMAIN q.inputs
           /\ q.inputs[1] = op.inputs[1] /\ q.inputs[2] = op.inputs[2]
           /\ Len(q.inputs) = 2 \/ (Len(q.inputs) = 3 /\ next.kind = "Add")
           /\ next.kind = "Add" =>
                 /\ next.inputs[1] = op.output /\ next.inputs[2] = op.output => Len(q.inputs) = 2
                 /\ next.inputs[1] # op.output =>
                       Len(q.inputs) = 3 /\ q.inputs[3] = next.inputs[1] /\ next.inputs[2] = op.output
                 /\ next.inputs[2] # op.output =>
                       Len(q.inputs) = 3 /\ q.inputs[3] = next.inputs[2] /\ next.inputs[1] = op.output
           /\ next.kind = "Relu" => next.inputs[1] = op.output
  <1> DEFINE v == op.output
             r == Pick(next.inputs, {i \in DOMAIN next.inputs : next.inputs[i] # v})
             x == IF next.kind = "Add" THEN op.inputs \o r ELSE op.inputs
             a == next.kind
             b == next.output
  <1>1. q = [op EXCEPT !.fused = a, !.output = b, !.inputs = x]
    BY DEF Fused
  <1>2. IsOp(op) /\ op.kind = "MatMul" /\ next.kind \in {"Relu", "Add"} /\ v \in Inputs(next)
        /\ IsSequence(op.inputs) /\ IsSequence(next.inputs) /\ DOMAIN op.inputs = 1..2
    BY DEF FusionPair, WellFormed, Fusable
  <1>3. Len(op.inputs) = 2
    <2> DEFINE s == op.inputs
    <2>1. IsSequence(s) /\ DOMAIN s = 1..2
      BY <1>2
    <2> HIDE DEF s
    <2>2. Len(s) = 2
      BY <2>1, LengthTwo
    <2> QED BY <2>2 DEF s
  <1> HIDE DEF x, a, b
  <1>4. /\ IsOp(q) /\ q.id = op.id /\ q.kind = "MatMul" /\ q.fused = a /\ q.output = b /\ q.inputs = x
    BY <1>1, <1>2 DEF IsOp, Fields
  <1>5. CASE next.kind = "Relu"
    <2>1. x = op.inputs
      BY <1>5 DEF x
    <2>2. DOMAIN next.inputs = 1..1
      BY <1>5 DEF FusionPair
    <2>3. next.inputs[1] = v
      BY <1>2, <2>2 DEF Inputs
    <2> QED BY <1>2, <1>3, <1>4, <1>5, <2>1, <2>3 DEF a, b
  <1>6. CASE next.kind = "Add"
    <2>1. x = op.inputs \o r
      BY <1>6 DEF x
    <2>2. DOMAIN next.inputs = 1..2
      BY <1>6 DEF FusionPair
    <2>3. next.inputs[1] = v \/ next.inputs[2] = v
      BY <1>2, <2>2 DEF Inputs
    <2>4. /\ IsSequence(r)
          /\ next.inputs[1] = v /\ next.inputs[2] = v => Len(r) = 0
          /\ next.inputs[1] # v => Len(r) = 1 /\ r[1] = next.inputs[1]
          /\ next.inputs[2] # v => Len(r) = 1 /\ r[1] = next.inputs[2]
      <3> DEFINE s == next.inputs
                 w == op.output
                 t == Pick(s, {i \in DOMAIN s : s[i] # w})
      <3>1. IsSequence(s) /\ DOMAIN s = 1..2 /\ (s[1] = w \/ s[2] = w) /\ t = Pick(s, {i \in DOMAIN s : s[i] # w})
        BY <1>2, <2>2, <2>3
      <3> HIDE DEF s, w, t
      <3>2. /\ IsSequence(t)
            /\ s[1] = w /\ s[2] = w => Len(t) = 0
            /\ s[1] # w => Len(t) = 1 /\ t[1] = s[1]
            /\ s[2] # w => Len(t) = 1 /\ t[1] = s[2]
        BY <3>1, OtherInputs
      <3> QED BY <3>2 DEF s, w, t
    <2> HIDE DEF r, v
    <2>5. IsSequence(x) /\ Len(x) = 2 + Len(r) /\ x[1] = op.inputs[1] /\ x[2] = op.inputs[2]
          /\ (Len(r) = 1 => x[3] = r[1]) /\ Len(r) \in Nat
      <3> DEFINE s == op.inputs
      <3>1. IsSequence(s) /\ DOMAIN s = 1..2 /\ x = Concat(s, r) /\ IsSequence(r)
        BY <1>2, <2>1, <2>4 DEF Concat
      <3> HIDE DEF s, r, x
      <3>2. IsSequence(x) /\ Len(x) = 2 + Len(r) /\ x[1] = s[1] /\ x[2] = s[2]
            /\ (Len(r) = 1 => x[3] = r[1]) /\ Len(r) \in Nat
        BY <3>1, ConcatFacts
      <3> QED BY <3>2 DEF s
    <2>6. DOMAIN x = 1..Len(x)
      BY <2>5, SequenceFacts
    <2>7. Len(r) \in {0, 1}
      BY <2>3, <2>4
    <2>8. 1 \in DOMAIN x /\ 2 \in DOMAIN x /\ x[1] = op.inputs[1] /\ x[2] = op.inputs[2]
      BY <2>5, <2>6, <2>7
    <2>9. /\ Len(x) = 2 \/ Len(x) = 3
          /\ next.inputs[1] = v /\ next.inputs[2] = v => Len(x) = 2
          /\ next.inputs[1] # v => Len(x) = 3 /\ x[3] = next.inputs[1] /\ next.inputs[2] = v
          /\ next.inputs[2] # v => Len(x) = 3 /\ x[3] = next.inputs[2] /\ next.inputs[1] = v
      <3>1. (Len(r) = 0 => Len(x) = 2) /\ (Len(r) = 1 => Len(x) = 3)
        <4> DEFINE m == Len(r)
                   n == Len(x)
        <4>1. m \in Nat /\ n = 2 + m
          BY <2>5
        <4> HIDE DEF m, n
        <4>2. (m = 0 => n = 2) /\ (m = 1 => n = 3)
          BY <4>1
        <4> QED BY <4>2 DEF m, n
      <3>2. Len(x) = 2 \/ Len(x) = 3
        BY <2>7, <3>1
      <3> QED BY <2>3, <2>4, <2>5, <3>1, <3>2, Zenon
    <2> QED BY <1>4, <1>6, <2>5, <2>8, <2>9 DEF a, b, v
  <1> QED BY <1>2, <1>5, <1>6

LEMMA FusedWellFormed ==
    ASSUME NEW op, NEW next, FusionPair(op, next), NEW q, q = Fused(op, next)
    PROVE  /\ WellFormed(q)
           /\ \A j \in DOMAIN q.inputs :
                 \/ q.inputs[j] \in Inputs(op)
                 \/ q.inputs[j] \in Inputs(next) /\ q.inputs[j] # op.output
  <1>1. /\ IsOp(q) /\ q.id = op.id /\ q.kind = "MatMul" /\ q.fused = next.kind /\ q.output = next.output
        /\ IsSequence(q.inputs) /\ 1 \in DOMAIN q.inputs /\ 2 \in DOMAIN q.inputs
        /\ q.inputs[1] = op.inputs[1] /\ q.inputs[2] = op.inputs[2]
        /\ Len(q.inputs) = 2 \/ (Len(q.inputs) = 3 /\ next.kind = "Add")
        /\ next.kind = "Add" =>
              /\ next.inputs[1] = op.output /\ next.inputs[2] = op.output => Len(q.inputs) = 2
              /\ next.inputs[1] # op.output => q.inputs[3] = next.inputs[1]
              /\ next.inputs[2] # op.output => q.inputs[3] = next.inputs[2]
    BY FusedFacts
  <1>2. WellFormed(op) /\ WellFormed(next) /\ op.output < next.output /\ next.kind \in {"Relu", "Add"}
        /\ DOMAIN op.inputs = 1..2 /\ (next.kind = "Add" => DOMAIN next.inputs = 1..2)
    BY DEF FusionPair, Fusable
  <1>3. DOMAIN q.inputs = 1..Len(q.inputs)
    BY <1>1, SequenceFacts
  <1>4. ASSUME NEW j \in DOMAIN q.inputs
        PROVE  \/ q.inputs[j] \in Inputs(op)
               \/ q.inputs[j] \in Inputs(next) /\ q.inputs[j] # op.output
    <2>1. CASE j = 1 \/ j = 2
      BY <1>1, <1>2, <2>1 DEF Inputs
    <2>2. CASE j # 1 /\ j # 2
      <3>1. j = 3 /\ Len(q.inputs) = 3 /\ next.kind = "Add"
        <4> DEFINE n == Len(q.inputs)
        <4>1. j \in 1..n /\ (n = 2 \/ (n = 3 /\ next.kind = "Add"))
          BY <1>1, <1>3
        <4> HIDE DEF n
        <4>2. j = 3 /\ n = 3 /\ next.kind = "Add"
          BY <2>2, <4>1
        <4> QED BY <4>2 DEF n
      <3>2. (next.inputs[1] # op.output /\ q.inputs[3] = next.inputs[1])
            \/ (next.inputs[2] # op.output /\ q.inputs[3] = next.inputs[2])
        BY <1>1, <3>1
      <3> QED BY <1>2, <3>1, <3>2 DEF Inputs
    <2> QED BY <2>1, <2>2
  <1>5. ASSUME NEW j \in DOMAIN q.inputs PROVE q.inputs[j] \in Int /\ q.inputs[j] < q.output
    <2>1. \A x \in Inputs(op) : x \in Int /\ x < op.output
      BY <1>2 DEF WellFormed, Inputs
    <2>2. \A x \in Inputs(next) : x \in Int /\ x < next.output
      BY <1>2 DEF WellFormed, Inputs
    <2>3. op.output \in Nat /\ next.output \in Nat
      BY <1>2 DEF WellFormed
    <2> QED BY <1>1, <1>2, <1>4, <2>1, <2>2, <2>3
  <1>6. WellFormed(q)
    BY <1>1, <1>2, <1>5 DEF WellFormed, OpKinds
  <1> QED BY <1>4, <1>6

-----------------------------------------------------------------------------
(* Operator fusion: which operations the new module has.                   *)

\* skipped_indices holds the operation after each that absorbs it: the test
\* that an operation is not itself skipped never matters, as only a MatMul
\* absorbs and no MatMul is absorbed.
LEMMA SkippedFacts ==
    ASSUME NEW F, Len(F) \in Nat
    PROVE  \A n \in 0..Len(F) : \A x :
              x \in Skipped(F)[n] <=> \E i \in 1..n : Fuses(F, i) /\ x = i + 1
  <1> DEFINE m == Len(F)
             K == Skipped(F)
             G == {n \in Nat : \A x : x \in K[n] <=> \E i \in 1..n : Fuses(F, i) /\ x = i + 1}
  <1>1. K[0] = {} /\ \A n \in 1..m : K[n] = SkippedStep(F, n, K[n - 1])
    BY SkippedDef
  <1>2. m \in Nat
    OBVIOUS
  <1> HIDE DEF m, K
  <1>3. 0 \in G
    BY <1>1
  <1>4. ASSUME NEW n \in Nat, n < m, n \in G PROVE n + 1 \in G
    <2>1. n + 1 \in 1..m /\ (n + 1) - 1 = n
      BY <1>2, <1>4
    <2>2. K[n + 1] = SkippedStep(F, n + 1, K[n])
      BY <1>1, <2>1
    <2>3. \A x : x \in K[n] <=> \E i \in 1..n : Fuses(F, i) /\ x = i + 1
      BY <1>4
    <2>4. Fuses(F, n + 1) => n + 1 \notin K[n]
      <3> SUFFICES ASSUME Fuses(F, n + 1), n + 1 \in K[n] PROVE FALSE
        OBVIOUS
      <3>1. PICK i \in 1..n : Fuses(F, i) /\ n + 1 = i + 1
        BY <2>3
      <3>2. i = n
        BY <3>1
      <3>3. F[n + 1].kind = "MatMul" /\ F[n + 1].kind \in {"Relu", "Add"}
        BY <3>1, <3>2 DEF Fuses, Fusable
      <3> QED BY <3>3
    <2>5. \A i \in 1..(n + 1) : i \in 1..n \/ i = n + 1
      OBVIOUS
    <2>6. n + 1 \in 1..(n + 1) /\ \A i \in 1..n : i \in 1..(n + 1)
      OBVIOUS
    <2>7. CASE Fuses(F, n + 1)
      <3>1. K[n + 1] = K[n] \cup {(n + 1) + 1}
        BY <2>2, <2>4, <2>7 DEF SkippedStep
      <3>2. \A x : x \in K[n + 1] <=> \E i \in 1..(n + 1) : Fuses(F, i) /\ x = i + 1
        BY <2>3, <2>5, <2>6, <2>7, <3>1
      <3> QED BY <3>2
    <2>8. CASE ~Fuses(F, n + 1)
      <3>1. K[n + 1] = K[n]
        BY <2>2, <2>8 DEF SkippedStep
      <3>2. \A x : x \in K[n + 1] <=> \E i \in 1..(n + 1) : Fuses(F, i) /\ x = i + 1
        BY <2>3, <2>5, <2>6, <2>8, <3>1
      <3> QED BY <3>2
    <2> QED BY <2>7, <2>8
  <1>5. \A n \in Nat : n < m /\ n \in G => n + 1 \in G
    BY <1>4
  <1> HIDE DEF G
  <1>6. \A n \in 0..m : n \in G
    BY <1>2, <1>3, <1>5, Induction
  <1> QED BY <1>6 DEF G, K, m

Absorbed(F, i) == i > 1 /\ Fuses(F, i - 1)
Kept(F) == {i \in DOMAIN F : ~Absorbed(F, i)}

\* An operation that absorbs another one is kept.
LEMMA AbsorberKept ==
    ASSUME NEW F, Len(F) \in Nat, DOMAIN F = 1..Len(F), NEW i \in DOMAIN F, Fuses(F, i)
    PROVE  /\ ~Absorbed(F, i) /\ i + 1 \in DOMAIN F /\ Absorbed(F, i + 1) /\ ~Fuses(F, i + 1)
  <1>1. i < Len(F) /\ F[i].kind = "MatMul" /\ F[i + 1].kind \in {"Relu", "Add"}
    BY DEF Fuses, Fusable
  <1>2. i + 1 \in DOMAIN F /\ i + 1 > 1 /\ (i + 1) - 1 = i
    BY <1>1
  <1>3. ~Fuses(F, i + 1)
    BY <1>1 DEF Fuses, Fusable
  <1>4. ~Absorbed(F, i)
    <2> SUFFICES ASSUME i > 1, Fuses(F, i - 1) PROVE FALSE
      BY DEF Absorbed
    <2>1. (i - 1) + 1 = i
      OBVIOUS
    <2>2. F[i].kind \in {"Relu", "Add"}
      BY <2>1 DEF Fuses, Fusable
    <2> QED BY <1>1, <2>2
  <1> QED BY <1>2, <1>3, <1>4 DEF Absorbed

LEMMA FusedPair ==
    ASSUME NEW F, IsPlain(F), NEW i \in DOMAIN F, Fuses(F, i)
    PROVE  FusionPair(F[i], F[i + 1])
  <1>1. Len(F) \in Nat /\ DOMAIN F = 1..Len(F)
    BY PlainAscending
  <1>2. i + 1 \in DOMAIN F
    BY <1>1, AbsorberKept
  <1>3. Fusable(F[i], F[i + 1])
    BY DEF Fuses
  <1>4. F[i].kind = "MatMul"
    BY <1>3 DEF Fusable
  <1>5. WellFormed(F[i]) /\ WellFormed(F[i + 1]) /\ F[i].output = i - 1 /\ F[i + 1].output = (i + 1) - 1
        /\ F[i].fused = "None" /\ F[i + 1].fused = "None" /\ DOMAIN F[i].inputs = 1..2
        /\ (F[i + 1].kind = "Add" => DOMAIN F[i + 1].inputs = 1..2)
        /\ (F[i + 1].kind = "Relu" => DOMAIN F[i + 1].inputs = 1..1)
    BY <1>2, <1>4 DEF IsPlain
  <1>6. F[i].output < F[i + 1].output
    BY <1>1, <1>5
  <1> QED BY <1>3, <1>5, <1>6 DEF FusionPair

\* Operation k of the new module stands where operation at[k] stood.
Layout(U, F, at) ==
    /\ at \in [DOMAIN U -> DOMAIN F]
    /\ \A k \in DOMAIN U :
          /\ ~Absorbed(F, at[k])
          /\ Fuses(F, at[k]) => U[k] = Fused(F[at[k]], F[at[k] + 1])
          /\ ~Fuses(F, at[k]) => U[k] = F[at[k]]
    /\ \A k, l \in DOMAIN U : k < l => at[k] < at[l]
    /\ \A i \in DOMAIN F : ~Absorbed(F, i) => \E k \in DOMAIN U : at[k] = i

LEMMA FusedLayout ==
    ASSUME NEW F, IsPlain(F), NEW U, U = FusedProgram(F)
    PROVE  IsSequence(U) /\ \E at : Layout(U, F, at)
  <1> DEFINE m == Len(F)
             A == FusedAt(F)
             K == Kept(F)
  <1>1. m \in Nat /\ DOMAIN F = 1..m
    BY PlainAscending
  <1>2. DOMAIN F \ Skipped(F)[m] = K
    <2>1. \A x : x \in Skipped(F)[m] <=> \E i \in 1..m : Fuses(F, i) /\ x = i + 1
      BY <1>1, SkippedFacts
    <2>2. ASSUME NEW x \in DOMAIN F PROVE x \in Skipped(F)[m] <=> Absorbed(F, x)
      <3>1. ASSUME NEW i \in 1..m, Fuses(F, i), x = i + 1 PROVE Absorbed(F, x)
        <4>1. x > 1 /\ x - 1 = i
          BY <3>1
        <4> QED BY <3>1, <4>1 DEF Absorbed
      <3>2. Absorbed(F, x) => x - 1 \in 1..m /\ Fuses(F, x - 1) /\ x = (x - 1) + 1
        BY <1>1 DEF Absorbed
      <3> QED BY <2>1, <3>1, <3>2
    <2> QED BY <2>2 DEF Kept
  <1>3. U = Pick(A, K)
    BY <1>2 DEF FusedProgram
  <1>4. DOMAIN A = 1..m /\ A = [i \in 1..m |-> A[i]]
        /\ \A i \in 1..m : /\ Fuses(F, i) => A[i] = Fused(F[i], F[i + 1])
                           /\ ~Fuses(F, i) => A[i] = F[i]
    BY <1>1 DEF FusedAt
  <1> HIDE DEF A, m
  <1>5. Len(A) = m
    BY <1>1, <1>4, FunctionIsSequence
  <1>6. K \in SUBSET (1..Len(A)) /\ \A i \in K : i \in DOMAIN F /\ ~Absorbed(F, i)
    BY <1>1, <1>5 DEF Kept
  <1>7. \A i \in DOMAIN F : ~Absorbed(F, i) => i \in K
    BY DEF Kept
  <1> HIDE DEF K
  <1>8. IsSequence(U) /\ IsSubsequence(U, A, K)
    BY <1>1, <1>3, <1>5, <1>6, PickIsSubsequence
  <1>9. PICK at \in [DOMAIN U -> K] :
           /\ \A k \in DOMAIN U : U[k] = A[at[k]]
           /\ \A k, l \in DOMAIN U : k < l => at[k] < at[l]
           /\ \A i \in K : \E k \in DOMAIN U : at[k] = i
    BY <1>8 DEF IsSubsequence
  <1>10. at \in [DOMAIN U -> DOMAIN F]
    BY <1>6, <1>9
  <1>11. \A k \in DOMAIN U : at[k] \in 1..m /\ ~Absorbed(F, at[k])
    BY <1>1, <1>6, <1>9
  <1>12. Layout(U, F, at)
    BY <1>4, <1>7, <1>9, <1>10, <1>11 DEF Layout
  <1> QED BY <1>8, <1>12

\* What a kept operation has become.
LEMMA LayoutFacts ==
    ASSUME NEW F, IsPlain(F), NEW U, NEW at, Layout(U, F, at), NEW k \in DOMAIN U
    PROVE  /\ at[k] \in DOMAIN F /\ WellFormed(U[k]) /\ U[k].id = at[k] - 1
           /\ Fuses(F, at[k]) => U[k].output = at[k]
           /\ ~Fuses(F, at[k]) => U[k].output = at[k] - 1
  <1> DEFINE i == at[k]
             q == U[k]
  <1>1. /\ i \in DOMAIN F
        /\ Fuses(F, i) => q = Fused(F[i], F[i + 1])
        /\ ~Fuses(F, i) => q = F[i]
    BY DEF Layout
  <1>2. Len(F) \in Nat /\ DOMAIN F = 1..Len(F)
    BY PlainAscending
  <1> HIDE DEF i, q
  <1>3. WellFormed(F[i]) /\ F[i].id = i - 1 /\ F[i].output = i - 1
    BY <1>1 DEF IsPlain
  <1>4. CASE Fuses(F, i)
    <2>1. FusionPair(F[i], F[i + 1]) /\ i + 1 \in DOMAIN F
      BY <1>1, <1>2, <1>4, FusedPair, AbsorberKept
    <2>2. F[i + 1].output = (i + 1) - 1 /\ (i + 1) - 1 = i
      BY <1>1, <1>2, <2>1 DEF IsPlain
    <2> DEFINE op == F[i]
               next == F[i + 1]
    <2>3. FusionPair(op, next) /\ q = Fused(op, next)
      BY <1>1, <1>4, <2>1
    <2> HIDE DEF op, next
    <2>4. WellFormed(q) /\ q.id = op.id /\ q.output = next.output
      BY <2>3, FusedFacts, FusedWellFormed
    <2> QED BY <1>1, <1>3, <1>4, <2>2, <2>4 DEF i, q, op, next
  <1>5. CASE ~Fuses(F, i)
    BY <1>1, <1>3, <1>5 DEF i, q
  <1> QED BY <1>4, <1>5

LEMMA FusedAscending ==
    ASSUME NEW F, IsPlain(F), NEW U, IsSequence(U), NEW at, Layout(U, F, at)
    PROVE  /\ Ascending(U)
           /\ \A v \in Outputs(U) : v \in Nat /\ v < Len(F)
           /\ \A v \in Nat : v < Len(F) => (v \in Outputs(U) <=> ~Fuses(F, v + 1))
  <1>1. Len(F) \in Nat /\ DOMAIN F = 1..Len(F)
    BY PlainAscending
  <1>2. \A k \in DOMAIN U :
           /\ at[k] \in DOMAIN F /\ WellFormed(U[k]) /\ U[k].id = at[k] - 1
           /\ Fuses(F, at[k]) => U[k].output = at[k]
           /\ ~Fuses(F, at[k]) => U[k].output = at[k] - 1
    BY LayoutFacts
  <1>3. /\ \A k \in DOMAIN U : ~Absorbed(F, at[k])
        /\ \A k, l \in DOMAIN U : k < l => at[k] < at[l]
        /\ \A i \in DOMAIN F : ~Absorbed(F, i) => \E k \in DOMAIN U : at[k] = i
    BY DEF Layout
  <1>4. ASSUME NEW k \in DOMAIN U, NEW l \in DOMAIN U, k < l
        PROVE  U[k].output < U[l].output /\ U[k].id < U[l].id
    <2> DEFINE i == at[k]
               j == at[l]
    <2>1. i \in Nat /\ j \in Nat /\ i < j /\ i \in DOMAIN F
      BY <1>1, <1>2, <1>3, <1>4
    <2>2. Fuses(F, i) => j # i + 1
      <3>1. Fuses(F, i) => Absorbed(F, i + 1)
        BY <1>1, <2>1, AbsorberKept
      <3> QED BY <1>3, <3>1
    <2>3. U[k].id = i - 1 /\ U[l].id = j - 1
          /\ ((U[k].output = i /\ Fuses(F, i)) \/ U[k].output = i - 1)
          /\ (U[l].output = j \/ U[l].output = j - 1)
      BY <1>2
    <2> HIDE DEF i, j
    <2> QED BY <2>1, <2>2, <2>3
  <1>5. Ascending(U)
    BY <1>2, <1>4 DEF Ascending
  <1>6. ASSUME NEW k \in DOMAIN U
        PROVE  U[k].output \in Nat /\ U[k].output < Len(F) /\ ~Fuses(F, U[k].output + 1)
    <2> DEFINE i == at[k]
    <2>1. i \in DOMAIN F /\ i \in Nat /\ i > 0 /\ (i - 1) + 1 = i
      BY <1>1, <1>2
    <2>2. CASE Fuses(F, i)
      <3>1. U[k].output = i /\ i < Len(F)
        BY <1>2, <2>2 DEF Fuses
      <3>2. ~Fuses(F, i + 1)
        BY <1>1, <2>1, <2>2, AbsorberKept
      <3> QED BY <2>1, <3>1, <3>2
    <2>3. CASE ~Fuses(F, i)
      <3>1. U[k].output = i - 1
        BY <1>2, <2>3
      <3> HIDE DEF i
      <3>2. i - 1 \in Nat /\ i - 1 < Len(F)
        BY <1>1, <2>1
      <3> QED BY <2>1, <2>3, <3>1, <3>2
    <2> QED BY <2>2, <2>3
  <1>7. ASSUME NEW v \in Nat, v < Len(F), ~Fuses(F, v + 1) PROVE v \in Outputs(U)
    <2>1. v + 1 \in DOMAIN F /\ (v + 1) - 1 = v
      BY <1>1, <1>7
    <2>2. CASE ~Absorbed(F, v + 1)
      <3>1. PICK k \in DOMAIN U : at[k] = v + 1
        BY <1>3, <2>1, <2>2
      <3>2. U[k].output = v
        BY <1>2, <1>7, <2>1, <3>1
      <3> QED BY <3>2 DEF Outputs
    <2>3. CASE Absorbed(F, v + 1)
      <3>1. Fuses(F, v) /\ v \in DOMAIN F
        BY <1>1, <1>7, <2>1, <2>3 DEF Absorbed
      <3>2. ~Absorbed(F, v)
        BY <1>1, <3>1, AbsorberKept
      <3>3. PICK k \in DOMAIN U : at[k] = v
        BY <1>3, <3>1, <3>2
      <3>4. U[k].output = v
        BY <1>2, <3>1, <3>3
      <3> QED BY <3>4 DEF Outputs
    <2> QED BY <2>2, <2>3
  <1>8. \A v \in Outputs(U) : v \in Nat /\ v < Len(F) /\ ~Fuses(F, v + 1)
    BY <1>6 DEF Outputs
  <1> QED BY <1>5, <1>7, <1>8

-----------------------------------------------------------------------------
(* Operator fusion: what the fused operation means.                        *)

\* What the absorbed operation is applied to, after fusion.
FusedArgs(q, env) == <<Product(q, env)>> \o Rest(q, env)

LEMMA ConcatTuples ==
    ASSUME NEW p, NEW x
    PROVE  <<p>> \o <<>> = <<p>> /\ <<p>> \o <<x>> = <<p, x>>
  <1> DEFINE S == {p, x}
             s == <<p>>
             t == <<x>>
             c == s \o t
  <1>1. s \in Seq(S) /\ t \in Seq(S) /\ Len(s) = 1 /\ Len(t) = 1 /\ s[1] = p /\ t[1] = x
    OBVIOUS
  <1> HIDE DEF S, s, t
  <1>2. s \o <<>> = s
    BY <1>1, ConcatEmptySeq
  <1>3. /\ c \in Seq(S) /\ Len(c) = Len(s) + Len(t)
        /\ \A i \in 1..(Len(s) + Len(t)) : c[i] = IF i <= Len(s) THEN s[i] ELSE t[i - Len(s)]
    BY <1>1, ConcatProperties
  <1> HIDE DEF c
  <1>4. Len(c) = 2 /\ c[1] = p /\ c[2] = x
    BY <1>1, <1>3
  <1>5. c = [i \in 1..2 |-> c[i]]
    BY <1>3, <1>4, LenProperties
  <1>6. c = <<p, x>>
    BY <1>4, <1>5
  <1> QED BY <1>2, <1>6 DEF s, t, c

LEMMA FusedArgsFacts ==
    ASSUME NEW q, NEW env, Len(q.inputs) = 2 \/ Len(q.inputs) = 3, NEW c, c = FusedArgs(q, env)
    PROVE  /\ c[1] = Product(q, env) /\ 1 \in DOMAIN c
           /\ Len(q.inputs) = 2 => DOMAIN c = 1..1 /\ Len(c) = 1 /\ c = [i \in 1..1 |-> c[i]]
           /\ Len(q.inputs) = 3 => DOMAIN c = 1..2 /\ Len(c) = 2 /\ c[2] = ValueOf(env, q.inputs[3])
  <1> DEFINE p == Product(q, env)
             r == Rest(q, env)
             n == Len(q.inputs)
  <1>1. c = <<p>> \o r /\ r = [i \in 1..(n - 2) |-> ValueOf(env, q.inputs[i + 2])]
    BY DEF FusedArgs, Rest
  <1> HIDE DEF p, r
  <1>2. CASE n = 2
    <2>1. r = <<>>
      BY <1>1, <1>2
    <2>2. c = <<p>>
      BY <1>1, <2>1, ConcatTuples, Zenon
    <2> QED BY <1>2, <2>2 DEF p
  <1>3. CASE n = 3
    <2> DEFINE x == ValueOf(env, q.inputs[3])
    <2>1. r = [i \in 1..1 |-> ValueOf(env, q.inputs[i + 2])]
      BY <1>1, <1>3
    <2>2. \A i \in 1..1 : ValueOf(env, q.inputs[i + 2]) = x
      OBVIOUS
    <2> HIDE DEF x
    <2>3. r = <<x>>
      BY <2>1, <2>2
    <2>4. c = <<p, x>>
      BY <1>1, <2>3, ConcatTuples, Zenon
    <2> QED BY <1>3, <2>4 DEF p, x
  <1> QED BY <1>2, <1>3

LEMMA ProductFacts ==
    ASSUME NEW q, NEW env
    PROVE  /\ Product(q, env) = App("MatMul", <<ValueOf(env, q.inputs[1]), ValueOf(env, q.inputs[2])>>)
           /\ Product(q, env)[1] = "MatMul"
  <1> DEFINE a == <<ValueOf(env, q.inputs[1]), ValueOf(env, q.inputs[2])>>
  <1>1. Product(q, env) = Apply("MatMul", a)
    BY DEF Product
  <1> HIDE DEF a
  <1>2. Product(q, env) = App("MatMul", a)
    BY <1>1, ApplyOther
  <1> QED BY <1>2, AppTags DEF a

LEMMA FusedTermOf ==
    ASSUME NEW op, NEW next, FusionPair(op, next), NEW q, q = Fused(op, next), NEW env
    PROVE  /\ TermOf(q, env) = Apply(next.kind, FusedArgs(q, env))
           /\ TermOf(next, env) = Apply(next.kind, Args(next, env))
           /\ Len(q.inputs) = 2 \/ Len(q.inputs) = 3
           /\ ~Constant(FusedArgs(q, env))
  <1>1. q.kind = "MatMul" /\ q.fused = next.kind /\ (Len(q.inputs) = 2 \/ Len(q.inputs) = 3)
    BY FusedFacts
  <1>2. next.kind \in {"Relu", "Add"} /\ next.fused = "None"
    BY DEF FusionPair, Fusable
  <1>3. TermOf(q, env) = Apply(next.kind, FusedArgs(q, env))
    BY <1>1, <1>2, TermOfFused DEF FusedArgs
  <1>4. TermOf(next, env) = Apply(next.kind, Args(next, env))
    BY <1>2, TermOfPlain
  <1> DEFINE c == FusedArgs(q, env)
  <1>5. c[1] = Product(q, env) /\ 1 \in DOMAIN c
    BY <1>1, FusedArgsFacts
  <1> HIDE DEF c
  <1>6. c[1][1] = "MatMul"
    BY <1>5, ProductFacts
  <1>7. ~Constant(c)
    BY <1>5, <1>6 DEF Constant
  <1> QED BY <1>1, <1>3, <1>4, <1>7 DEF c

\* Unless it adds the product to itself, the fused operation means what the
\* absorbed one meant.
LEMMA FusedTerm ==
    ASSUME NEW op, NEW next, FusionPair(op, next), NEW q, q = Fused(op, next),
           NEW M, op.output \in DOMAIN M, M[op.output] = TermOf(op, M),
           next.kind = "Add" => ~(next.inputs[1] = op.output /\ next.inputs[2] = op.output)
    PROVE  TermOf(q, M) = TermOf(next, M)
  <1> DEFINE c == FusedArgs(q, M)
             a == Args(next, M)
             p == Product(q, M)
             v == op.output
  <1>1. /\ TermOf(q, M) = Apply(next.kind, c) /\ TermOf(next, M) = Apply(next.kind, a)
        /\ ~Constant(c)
    BY FusedTermOf
  <1>2. /\ q.inputs[1] = op.inputs[1] /\ q.inputs[2] = op.inputs[2]
        /\ Len(q.inputs) = 2 \/ (Len(q.inputs) = 3 /\ next.kind = "Add")
        /\ next.kind = "Add" =>
              /\ next.inputs[1] # v =>
                    Len(q.inputs) = 3 /\ q.inputs[3] = next.inputs[1] /\ next.inputs[2] = v
              /\ next.inputs[2] # v =>
                    Len(q.inputs) = 3 /\ q.inputs[3] = next.inputs[2] /\ next.inputs[1] = v
        /\ next.kind = "Relu" => next.inputs[1] = v
    BY FusedFacts
  <1>3. v \in Nat /\ op.kind = "MatMul" /\ op.fused = "None" /\ DOMAIN op.inputs = 1..2
        /\ next.kind \in {"Relu", "Add"}
        /\ (next.kind = "Add" => DOMAIN next.inputs = 1..2)
        /\ (next.kind = "Relu" => DOMAIN next.inputs = 1..1)
    BY DEF FusionPair, Fusable, WellFormed
  <1>4. ValueOf(M, v) = p
    <2>1. TermOf(op, M) = Apply("MatMul", Args(op, M))
      BY <1>3, TermOfPlain
    <2>2. Args(op, M) = <<ValueOf(M, op.inputs[1]), ValueOf(M, op.inputs[2])>>
      <3> DEFINE g == Args(op, M)
                 x == ValueOf(M, op.inputs[1])
                 y == ValueOf(M, op.inputs[2])
      <3>0. g = [i \in DOMAIN op.inputs |-> g[i]]
            /\ \A i \in DOMAIN op.inputs : g[i] = ValueOf(M, op.inputs[i])
        BY ArgsFacts
      <3>1. g = [i \in 1..2 |-> g[i]] /\ g[1] = x /\ g[2] = y
        BY <1>3, <3>0
      <3> HIDE DEF g, x, y
      <3>2. g = <<x, y>>
        BY <3>1
      <3> QED BY <3>2 DEF g, x, y
    <2>3. p = TermOf(op, M)
      BY <1>2, <2>1, <2>2 DEF Product
    <2>4. ValueOf(M, v) = M[v]
      BY <1>3, ValueOfInput
    <2> QED BY <2>3, <2>4
  <1>5. c[1] = p /\ 1 \in DOMAIN c
        /\ (Len(q.inputs) = 2 => c = [i \in 1..1 |-> c[i]])
        /\ (Len(q.inputs) = 3 => DOMAIN c = 1..2 /\ Len(c) = 2 /\ c[2] = ValueOf(M, q.inputs[3]))
    BY <1>2, FusedArgsFacts
  <1>6. DOMAIN a = DOMAIN next.inputs /\ a = [i \in DOMAIN next.inputs |-> a[i]]
        /\ \A i \in DOMAIN next.inputs : a[i] = ValueOf(M, next.inputs[i])
    BY ArgsFacts
  <1>7. CASE next.kind = "Relu"
    <2>1. a[1] = p /\ a = [i \in 1..1 |-> a[i]]
      BY <1>2, <1>3, <1>4, <1>6, <1>7
    <2>2. c = [i \in 1..1 |-> c[i]]
      BY <1>2, <1>5, <1>7
    <2> HIDE DEF a, c
    <2>3. \A i \in 1..1 : a[i] = c[i]
      BY <1>5, <2>1
    <2>4. a = c
      BY <2>1, <2>2, <2>3
    <2> QED BY <1>1, <2>4
  <1>8. CASE next.kind = "Add"
    <2>1. Len(q.inputs) = 3
      BY <1>2, <1>8
    <2>2. DOMAIN a = 1..2 /\ a = [i \in 1..2 |-> a[i]]
          /\ a[1] = ValueOf(M, next.inputs[1]) /\ a[2] = ValueOf(M, next.inputs[2])
      BY <1>3, <1>6, <1>8
    <2>3. (a[1] = c[1] /\ a[2] = c[2]) \/ (a[1] = c[2] /\ a[2] = c[1])
      BY <1>2, <1>4, <1>5, <1>8, <2>1, <2>2
    <2>4. DOMAIN c = 1..2 /\ Len(c) = 2
      BY <1>5, <2>1
    <2> HIDE DEF a, c
    <2>5. Len(a) = 2
      BY <2>2, FunctionIsSequence
    <2>6. {a[i] : i \in DOMAIN a} = {c[i] : i \in DOMAIN c}
      <3>1. {a[i] : i \in DOMAIN a} = {a[1], a[2]} /\ {c[i] : i \in DOMAIN c} = {c[1], c[2]}
        BY <2>2, <2>4
      <3> QED BY <2>3, <3>1
    <2>7. ~Constant(a)
      <3>1. p[1] = "MatMul"
        BY ProductFacts
      <3>2. (a[1] = p \/ a[2] = p) /\ 1 \in DOMAIN a /\ 2 \in DOMAIN a
        BY <1>5, <2>2, <2>3
      <3> HIDE DEF p
      <3> QED BY <3>1, <3>2 DEF Constant
    <2>8. Apply("Add", a) = Sum({a[i] : i \in DOMAIN a}, 2) /\ Apply("Add", c) = Sum({c[i] : i \in DOMAIN c}, 2)
      BY <1>1, <2>4, <2>5, <2>7, ApplyAdd
    <2> QED BY <1>1, <1>8, <2>6, <2>8
  <1> QED BY <1>3, <1>7, <1>8

\* Where the fused operation agrees with what the absorbed one meant, what it
\* is applied to is among what the absorbed one was applied to.
LEMMA FusedAgrees ==
    ASSUME NEW op, NEW next, FusionPair(op, next), NEW q, q = Fused(op, next),
           NEW M, NEW N, TermOf(q, N) = TermOf(next, M)
    PROVE  /\ \E i \in DOMAIN next.inputs : ValueOf(M, next.inputs[i]) = Product(q, N)
           /\ next.kind = "Add" =>
                 /\ Len(q.inputs) = 3
                 /\ \E i \in DOMAIN next.inputs : ValueOf(M, next.inputs[i]) = ValueOf(N, q.inputs[3])
  <1> DEFINE c == FusedArgs(q, N)
             a == Args(next, M)
             n == Len(q.inputs)
  <1>1. /\ TermOf(q, N) = Apply(next.kind, c) /\ TermOf(next, M) = Apply(next.kind, a)
        /\ ~Constant(c)
        /\ n = 2 \/ n = 3
    BY FusedTermOf
  <1>2. next.kind \in {"Relu", "Add"}
        /\ (next.kind = "Add" => DOMAIN next.inputs = 1..2)
        /\ (next.kind = "Relu" => DOMAIN next.inputs = 1..1)
    BY DEF FusionPair, Fusable
  <1>3. c[1] = Product(q, N) /\ 1 \in DOMAIN c
        /\ (n = 2 => Len(c) = 1)
        /\ (n = 3 => DOMAIN c = 1..2 /\ c[2] = ValueOf(N, q.inputs[3]))
    BY <1>1, FusedArgsFacts
  <1>4. DOMAIN a = DOMAIN next.inputs /\ a = [i \in DOMAIN next.inputs |-> a[i]]
        /\ \A i \in DOMAIN next.inputs : a[i] = ValueOf(M, next.inputs[i])
    BY ArgsFacts
  <1> HIDE DEF c, a, n
  <1>5. CASE next.kind = "Relu"
    <2>1. App("Relu", c) = App("Relu", a)
      BY <1>1, <1>5, ApplyOther
    <2>2. c = a
      BY <2>1, AppTags
    <2>3. 1 \in DOMAIN next.inputs
      BY <1>2, <1>5
    <2>4. ValueOf(M, next.inputs[1]) = Product(q, N)
      BY <1>3, <1>4, <2>2, <2>3
    <2> QED BY <1>5, <2>3, <2>4
  <1>6. CASE next.kind = "Add"
    <2>1. Apply("Add", c) = Sum({c[i] : i \in DOMAIN c}, Len(c))
      BY <1>1, ApplyAdd
    <2>2. Apply("Add", a) = Apply("Add", c)
      BY <1>1, <1>6
    <2>3. ~Constant(a)
      <3> SUFFICES ASSUME Constant(a) PROVE FALSE
        OBVIOUS
      <3>1. Apply("Add", a)[1] = "const"
        BY ApplyConstant, ConstTags
      <3>2. Apply("Add", c)[1] = "Add"
        BY <2>1, SumTags
      <3> QED BY <2>2, <3>1, <3>2
    <2>4. Apply("Add", a) = Sum({a[i] : i \in DOMAIN a}, Len(a))
      BY <2>3, ApplyAdd
    <2>5. {c[i] : i \in DOMAIN c} = {a[i] : i \in DOMAIN a} /\ Len(c) = Len(a)
      <3> DEFINE X == {c[i] : i \in DOMAIN c}
                 Y == {a[i] : i \in DOMAIN a}
                 j == Len(c)
                 l == Len(a)
      <3>1. Sum(X, j) = Sum(Y, l)
        BY <2>1, <2>2, <2>4
      <3> HIDE DEF X, Y, j, l
      <3>2. X = Y /\ j = l
        BY <3>1, SumTags
      <3> QED BY <3>2 DEF X, Y, j, l
    <2>6. Len(a) = 2
      <3>1. DOMAIN a = 1..2 /\ a = [i \in 1..2 |-> a[i]]
        BY <1>2, <1>4, <1>6
      <3> QED BY <3>1, FunctionIsSequence
    <2>7. n = 3
      BY <1>1, <1>3, <2>5, <2>6
    <2>8. \A i \in DOMAIN c : \E l \in DOMAIN next.inputs : ValueOf(M, next.inputs[l]) = c[i]
      <3> TAKE i \in DOMAIN c
      <3>1. c[i] \in {a[l] : l \in DOMAIN a}
        BY <2>5
      <3>2. PICK l \in DOMAIN a : c[i] = a[l]
        BY <3>1
      <3> QED BY <1>4, <3>2
    <2>9. 1 \in DOMAIN c /\ 2 \in DOMAIN c /\ c[1] = Product(q, N) /\ c[2] = ValueOf(N, q.inputs[3])
      BY <1>3, <2>7
    <2> QED BY <1>6, <2>7, <2>8, <2>9 DEF n
  <1> QED BY <1>2, <1>5, <1>6

-----------------------------------------------------------------------------
(* Operator fusion: the values of the source.                              *)

LEMMA AddTag ==
    ASSUME NEW args, ~Constant(args)
    PROVE  Apply("Add", args)[1] = "Add"
  <1> DEFINE X == {args[i] : i \in DOMAIN args}
             n == Len(args)
  <1>1. Apply("Add", args) = Sum(X, n)
    BY ApplyAdd
  <1> HIDE DEF X, n
  <1> QED BY <1>1, SumTags

\* The shape of the terms of a source.
LEMMA SourceTerms ==
    ASSUME NEW S, IsSource(S), NEW M, M = Meaning(S), NEW i \in DOMAIN S
    PROVE  /\ M[S[i].output] = TermOf(S[i], M) /\ S[i].output \in DOMAIN M
           /\ TermOf(S[i], M)[1] # "undef"
           /\ S[i].kind = "MatMul" => TermOf(S[i], M) = App("MatMul", Args(S[i], M))
           /\ TermOf(S[i], M)[1] = "MatMul" => S[i].kind = "MatMul"
  <1> DEFINE op == S[i]
             a == Args(op, M)
             t == TermOf(op, M)
  <1>1. IsMeaning(M, S)
    BY PlainAscending, MeaningFacts DEF IsSource
  <1>2. M[op.output] = t /\ op.output \in DOMAIN M
    BY <1>1 DEF IsMeaning, Outputs
  <1>3. op.kind \in OpKinds /\ op.fused = "None"
    BY DEF IsSource, IsPlain, WellFormed
  <1>4. op.kind = "Fill" => t = Const(op.value)
    BY TermOfFill
  <1>5. op.kind # "Fill" => t = Apply(op.kind, a)
    BY <1>3, TermOfPlain
  <1> HIDE DEF a, t, op
  <1>6. CASE op.kind = "Fill"
    <2>1. t[1] = "const"
      BY <1>4, <1>6, ConstTags
    <2> QED BY <1>2, <1>6, <2>1 DEF t, op
  <1>7. CASE op.kind \in {"Add", "Mul"}
    <2>1. t[1] \in {"const", "Add", "Mul"}
      <3>1. t = Apply("Add", a) \/ t = Apply("Mul", a)
        BY <1>5, <1>7
      <3>2. CASE Constant(a)
        BY <3>1, <3>2, ApplyConstant, ConstTags
      <3>3. CASE ~Constant(a)
        <4>1. Apply("Add", a)[1] = "Add"
          BY <3>3, AddTag
        <4>2. Apply("Mul", a)[1] = "Mul"
          BY <3>3, ApplyMul, AppTags
        <4> QED BY <3>1, <4>1, <4>2
      <3> QED BY <3>2, <3>3
    <2> QED BY <1>2, <1>7, <2>1 DEF t, op
  <1>8. CASE op.kind \notin {"Fill", "Add", "Mul"}
    <2>1. t = App(op.kind, a)
      BY <1>5, <1>8, ApplyOther
    <2>2. t[1] = op.kind
      BY <2>1, AppTags
    <2>3. op.kind # "undef"
      BY <1>3 DEF OpKinds
    <2> QED BY <1>2, <2>1, <2>2, <2>3 DEF t, op, a
  <1> QED BY <1>6, <1>7, <1>8

\* What a source reads is defined, and so are the factors of a product it
\* reads.
LEMMA SourceDefined ==
    ASSUME NEW S, IsSource(S), NEW M, M = Meaning(S), NEW i \in DOMAIN S, NEW j \in DOMAIN S[i].inputs
    PROVE  ValueOf(M, S[i].inputs[j]) # Undef
  <1> DEFINE w == S[i].inputs[j]
  <1>1. Len(S) \in Nat /\ DOMAIN S = 1..Len(S) /\ \A v \in Nat : v < Len(S) => v + 1 \in DOMAIN S /\ S[v + 1].output = v
    BY PlainAscending DEF IsSource
  <1>2. w \in Int /\ w < S[i].output /\ S[i].output = i - 1
    BY DEF IsSource, IsPlain, WellFormed
  <1> HIDE DEF w
  <1>3. CASE w < 0
    <2>1. ValueOf(M, w) = Ext(w)
      BY <1>2, <1>3, ValueOfInput
    <2>2. ValueOf(M, w)[1] = "ext"
      BY <2>1, ExtTag
    <2> QED BY <2>2, UndefTag DEF w
  <1>4. CASE w >= 0
    <2>1. w \in Nat /\ w < Len(S)
      BY <1>1, <1>2, <1>4
    <2> DEFINE l == w + 1
    <2>2. l \in DOMAIN S /\ S[l].output = w
      BY <1>1, <2>1
    <2> HIDE DEF l
    <2>3. M[S[l].output] = TermOf(S[l], M) /\ S[l].output \in DOMAIN M /\ TermOf(S[l], M)[1] # "undef"
      BY <2>2, SourceTerms
    <2>4. ValueOf(M, w) = M[w]
      BY <1>2, <1>4, <2>2, <2>3, ValueOfInput
    <2>5. ValueOf(M, w)[1] # "undef"
      BY <2>2, <2>3, <2>4
    <2> QED BY <2>5, UndefTag DEF w
  <1> QED BY <1>2, <1>3, <1>4

LEMMA FactorsDefined ==
    ASSUME NEW S, IsSource(S), NEW M, M = Meaning(S), NEW i \in DOMAIN S, NEW j \in DOMAIN S[i].inputs,
           NEW a, NEW b, ValueOf(M, S[i].inputs[j]) = App("MatMul", <<a, b>>)
    PROVE  a # Undef /\ b # Undef
  <1> DEFINE w == S[i].inputs[j]
             t == <<a, b>>
  <1>0. t[1] = a /\ t[2] = b /\ ValueOf(M, w) = App("MatMul", t)
    OBVIOUS
  <1> HIDE DEF t
  <1>1. Len(S) \in Nat /\ DOMAIN S = 1..Len(S) /\ \A v \in Nat : v < Len(S) => v + 1 \in DOMAIN S /\ S[v + 1].output = v
    BY PlainAscending DEF IsSource
  <1>2. w \in Int /\ w < S[i].output /\ S[i].output = i - 1
    BY DEF IsSource, IsPlain, WellFormed
  <1> HIDE DEF w
  <1>3. ValueOf(M, w)[1] = "MatMul"
    BY <1>0, AppTags
  <1>4. CASE w < 0
    <2>1. ValueOf(M, w)[1] = "ext"
      BY <1>2, <1>4, ValueOfInput, ExtTag
    <2> QED BY <1>3, <2>1
  <1>5. CASE w >= 0
    <2>1. w \in Nat /\ w < Len(S)
      BY <1>1, <1>2, <1>5
    <2> DEFINE l == w + 1
    <2>2. l \in DOMAIN S /\ S[l].output = w
      BY <1>1, <2>1
    <2> HIDE DEF l
    <2>3. /\ M[S[l].output] = TermOf(S[l], M) /\ S[l].output \in DOMAIN M
          /\ S[l].kind = "MatMul" => TermOf(S[l], M) = App("MatMul", Args(S[l], M))
          /\ TermOf(S[l], M)[1] = "MatMul" => S[l].kind = "MatMul"
      BY <2>2, SourceTerms
    <2>4. ValueOf(M, w) = TermOf(S[l], M)
      BY <1>2, <1>5, <2>2, <2>3, ValueOfInput
    <2>5. S[l].kind = "MatMul" /\ App("MatMul", t) = App("MatMul", Args(S[l], M))
      BY <1>0, <1>3, <2>3, <2>4
    <2>6. t = Args(S[l], M)
      BY <2>5, AppTags
    <2>7. 1 \in DOMAIN S[l].inputs /\ 2 \in DOMAIN S[l].inputs
      BY <2>2, <2>5 DEF IsSource, IsPlain, WellFormed
    <2>8. a = ValueOf(M, S[l].inputs[1]) /\ b = ValueOf(M, S[l].inputs[2])
      BY <1>0, <2>6, <2>7, ArgsFacts
    <2>9. ValueOf(M, S[l].inputs[1]) # Undef /\ ValueOf(M, S[l].inputs[2]) # Undef
      BY <2>2, <2>7, SourceDefined
    <2> QED BY <2>8, <2>9
  <1> QED BY <1>2, <1>4, <1>5

\* Folding changes neither products nor what reads them.
LEMMA ProductsKept ==
    ASSUME NEW S, IsSource(S), NEW F, F = Folded(S), NEW i \in DOMAIN S, S[i].kind = "MatMul"
    PROVE  F[i] = S[i]
  <1> DEFINE M == Meaning(S)
             t == TermOf(S[i], M)
             c == F[i].value
  <1>1. F[i].kind = "Fill" \/ F[i] = S[i]
    BY FoldedFacts
  <1>2. F[i].kind = "Fill" => t = Const(c)
    BY FoldedFacts
  <1>3. t = App("MatMul", Args(S[i], M))
    BY SourceTerms
  <1> HIDE DEF t, c, M
  <1>4. t[1] = "MatMul"
    BY <1>3, AppTags
  <1>5. F[i].kind = "Fill" => t[1] = "const"
    BY <1>2, ConstTags
  <1> QED BY <1>1, <1>4, <1>5

LEMMA ProductReader ==
    ASSUME NEW S, IsSource(S), NEW F, F = Folded(S), NEW M, M = Meaning(S),
           NEW i \in DOMAIN S, S[i].kind = "MatMul", NEW j \in DOMAIN S, S[i].output \in Inputs(S[j])
    PROVE  F[j] = S[j] /\ S[j].kind # "Fill" /\ ~Constant(Args(S[j], M))
  <1> DEFINE op == S[j]
             a == Args(op, M)
             t == TermOf(op, M)
  <1>1. S[j].kind # "Fill"
    BY DEF IsSource, Inputs
  <1>2. PICK l \in DOMAIN op.inputs : op.inputs[l] = S[i].output
    BY DEF Inputs
  <1>3. a[l] = ValueOf(M, S[i].output) /\ l \in DOMAIN a
    BY <1>2, ArgsFacts
  <1>4. S[i].output \in Int /\ S[i].output >= 0
    BY DEF IsSource, IsPlain, WellFormed
  <1>5. M[S[i].output] = App("MatMul", Args(S[i], M)) /\ S[i].output \in DOMAIN M
    BY SourceTerms
  <1>6. a[l] = App("MatMul", Args(S[i], M))
    BY <1>3, <1>4, <1>5, ValueOfInput
  <1> HIDE DEF a
  <1>7. a[l][1] = "MatMul"
    BY <1>6, AppTags
  <1>8. ~Constant(a)
    BY <1>3, <1>7 DEF Constant
  <1>9. op.fused = "None" /\ op.kind \in OpKinds
    BY DEF IsSource, IsPlain, WellFormed
  <1>10. t = Apply(op.kind, a)
    BY <1>1, <1>9, TermOfPlain DEF a
  <1>11. F[j].kind = "Fill" \/ F[j] = S[j]
    BY FoldedFacts
  <1> DEFINE c == F[j].value
  <1>12. F[j].kind = "Fill" => t = Const(c)
    BY FoldedFacts
  <1> HIDE DEF t, c, op
  <1>13. t[1] # "const"
    <2>1. CASE op.kind = "Add"
      <3>1. t[1] = "Add"
        BY <1>8, <1>10, <2>1, AddTag
      <3> QED BY <3>1
    <2>2. CASE op.kind = "Mul"
      <3>1. t[1] = "Mul"
        BY <1>8, <1>10, <2>2, ApplyMul, AppTags
      <3> QED BY <3>1
    <2>3. CASE op.kind \notin {"Add", "Mul"}
      <3>1. t[1] = op.kind
        BY <1>10, <2>3, ApplyOther, AppTags
      <3> QED BY <1>9, <3>1 DEF OpKinds
    <2> QED BY <2>1, <2>2, <2>3
  <1>14. F[j].kind # "Fill"
    BY <1>12, <1>13, ConstTags
  <1> QED BY <1>1, <1>8, <1>11, <1>14 DEF a, op

LEMMA FusesSame ==
    ASSUME NEW S, IsSource(S), NEW F, F = Folded(S), NEW i \in DOMAIN S
    PROVE  /\ Fuses(F, i) <=> Fuses(S, i)
           /\ Fuses(F, i) => F[i] = S[i] /\ F[i + 1] = S[i + 1]
  <1>1. Len(S) \in Nat /\ DOMAIN S = 1..Len(S)
    BY PlainAscending DEF IsSource
  <1>2. DOMAIN F = DOMAIN S /\ Len(F) = Len(S)
        /\ \A l \in DOMAIN S : F[l].kind = "Fill" \/ F[l] = S[l]
    BY FoldedFacts
  <1>3. ASSUME Fuses(F, i) PROVE Fuses(S, i) /\ F[i] = S[i] /\ F[i + 1] = S[i + 1]
    <2>1. i < Len(F) /\ Fusable(F[i], F[i + 1])
      BY <1>3 DEF Fuses
    <2>2. i + 1 \in DOMAIN S
      BY <1>1, <1>2, <2>1
    <2>3. F[i] = S[i] /\ F[i + 1] = S[i + 1]
      BY <1>2, <2>1, <2>2 DEF Fusable
    <2> QED BY <1>2, <2>1, <2>3 DEF Fuses
  <1>4. ASSUME Fuses(S, i) PROVE Fuses(F, i)
    <2>1. i < Len(S) /\ Fusable(S[i], S[i + 1])
      BY <1>4 DEF Fuses
    <2>2. S[i].kind = "MatMul" /\ S[i].output \in Inputs(S[i + 1])
      BY <2>1 DEF Fusable
    <2>3. i + 1 \in DOMAIN S
      BY <1>1, <2>1
    <2> DEFINE l == i + 1
    <2>4. l \in DOMAIN S /\ S[i].output \in Inputs(S[l])
      BY <2>2, <2>3
    <2> HIDE DEF l
    <2>5. F[l] = S[l]
      BY <2>2, <2>4, ProductReader
    <2>6. F[i] = S[i]
      BY <2>2, ProductsKept
    <2> QED BY <1>2, <2>1, <2>5, <2>6 DEF Fuses, l
  <1> QED BY <1>3, <1>4

-----------------------------------------------------------------------------
(* Operator fusion keeps the meaning exactly when no product is reread.    *)

Reread(S, i) ==
    LET v == S[i].output
    IN  /\ Fusable(S[i], S[i + 1])
        /\ \/ \E j \in DOMAIN S : j > i + 1 /\ v \in Inputs(S[j])
           \/ S[i + 1].inputs = <<v, v>>

\* An addition of the product to itself, said with its two inputs.
LEMMA TwiceRead ==
    ASSUME NEW next, WellFormed(next), next.kind = "Add" => DOMAIN next.inputs = 1..2,
           next.kind = "Relu" => DOMAIN next.inputs = 1..1, next.kind \in {"Relu", "Add"}, NEW v
    PROVE  next.inputs = <<v, v>> <=> next.kind = "Add" /\ next.inputs[1] = v /\ next.inputs[2] = v
  <1> DEFINE s == next.inputs
             t == <<v, v>>
  <1>1. IsSequence(s) /\ (next.kind = "Add" => DOMAIN s = 1..2) /\ (next.kind = "Relu" => DOMAIN s = 1..1)
    BY DEF WellFormed
  <1> HIDE DEF s
  <1>2. DOMAIN s = 1..Len(s) /\ s = [i \in DOMAIN s |-> s[i]]
    BY <1>1, SequenceFacts
  <1>3. DOMAIN t = 1..2 /\ t = [i \in 1..2 |-> t[i]] /\ t[1] = v /\ t[2] = v
    OBVIOUS
  <1> HIDE DEF t
  <1>4. ASSUME s = t PROVE next.kind = "Add" /\ s[1] = v /\ s[2] = v
    <2>1. next.kind # "Relu"
      <3> SUFFICES ASSUME next.kind = "Relu" PROVE FALSE
        OBVIOUS
      <3>1. 2 \in 1..1
        BY <1>1, <1>3, <1>4
      <3> QED BY <3>1
    <2> QED BY <1>3, <1>4, <2>1
  <1>5. ASSUME next.kind = "Add", s[1] = v, s[2] = v PROVE s = t
    <2>1. s = [i \in 1..2 |-> s[i]]
      BY <1>1, <1>2, <1>5
    <2>2. \A i \in 1..2 : s[i] = t[i]
      BY <1>3, <1>5
    <2> QED BY <1>3, <2>1, <2>2
  <1> QED BY <1>4, <1>5 DEF s, t

LEMMA FusionForward ==
    ASSUME NEW S, IsSource(S), NEW F, F = Folded(S), NEW U, U = FusedProgram(F),
           \A i \in 1..(Len(S) - 1) : ~Reread(S, i)
    PROVE  \A v \in Outputs(U) : Meaning(U)[v] = Meaning(S)[v]
  <1> DEFINE M == Meaning(S)
  <1>1. /\ Len(S) \in Nat /\ DOMAIN S = 1..Len(S)
        /\ \A v \in Nat : v < Len(S) => v \in Outputs(S)
        /\ \A v \in Outputs(S) : v \in Nat
    BY PlainAscending DEF IsSource
  <1>2. IsPlain(F)
    BY FoldedPlain
  <1>3. DOMAIN F = DOMAIN S /\ Len(F) = Len(S)
        /\ \A i \in DOMAIN S : F[i].inputs = S[i].inputs /\ F[i].output = S[i].output
                               /\ TermOf(F[i], M) = TermOf(S[i], M)
    BY FoldedFacts
  <1>4. IsSequence(U) /\ \E at : Layout(U, F, at)
    BY <1>2, FusedLayout
  <1>5. PICK at : Layout(U, F, at)
    BY <1>4
  <1>6. /\ Ascending(U)
        /\ \A v \in Outputs(U) : v \in Nat /\ v < Len(S)
        /\ \A v \in Nat : v < Len(S) => (v \in Outputs(U) <=> ~Fuses(F, v + 1))
    BY <1>2, <1>3, <1>4, <1>5, FusedAscending
  <1>7. IsMeaning(M, S)
    BY PlainAscending, MeaningFacts DEF IsSource
  <1> HIDE DEF M
  <1>8. \A v \in Outputs(U) : v \in DOMAIN M
    BY <1>1, <1>6, <1>7 DEF IsMeaning
  <1>9. \A i \in DOMAIN F : i \in DOMAIN S /\ S[i].output = i - 1 /\ S[i].output \in Nat /\ WellFormed(S[i])
    BY <1>3 DEF IsSource, IsPlain, WellFormed
  <1>10. ASSUME NEW i \in DOMAIN S, Fuses(F, i)
         PROVE  /\ i \in 1..(Len(S) - 1) /\ i + 1 \in DOMAIN S /\ FusionPair(F[i], F[i + 1])
                /\ F[i] = S[i] /\ F[i + 1] = S[i + 1] /\ Fusable(S[i], S[i + 1])
    <2>1. i + 1 \in DOMAIN F /\ FusionPair(F[i], F[i + 1])
      BY <1>1, <1>2, <1>3, <1>10, AbsorberKept, FusedPair
    <2>2. F[i] = S[i] /\ F[i + 1] = S[i + 1] /\ Fuses(S, i)
      BY <1>10, FusesSame
    <2>3. i < Len(S)
      BY <1>3, <1>10 DEF Fuses
    <2> QED BY <1>1, <1>3, <2>1, <2>2, <2>3 DEF Fuses
  <1>11. ASSUME NEW k \in DOMAIN U PROVE TermOf(U[k], M) = M[U[k].output]
    <2> DEFINE i == at[k]
    <2>1. i \in DOMAIN F /\ (Fuses(F, i) => U[k] = Fused(F[i], F[i + 1])) /\ (~Fuses(F, i) => U[k] = F[i])
      BY <1>5 DEF Layout
    <2> HIDE DEF i
    <2>2. CASE ~Fuses(F, i)
      BY <1>3, <1>7, <1>9, <2>1, <2>2 DEF IsMeaning
    <2>3. CASE Fuses(F, i)
      <3> DEFINE op == F[i]
                 next == F[i + 1]
                 q == U[k]
      <3>1. /\ FusionPair(op, next) /\ q = Fused(op, next) /\ op = S[i] /\ next = S[i + 1]
            /\ i + 1 \in DOMAIN S /\ i \in DOMAIN S /\ ~Reread(S, i) /\ Fusable(S[i], S[i + 1])
        BY <1>3, <1>10, <2>1, <2>3
      <3>2. op.output \in DOMAIN M /\ M[op.output] = TermOf(op, M) /\ M[next.output] = TermOf(next, M)
        BY <1>7, <3>1 DEF IsMeaning, Outputs
      <3>3. next.inputs # <<op.output, op.output>>
        BY <3>1 DEF Reread
      <3> HIDE DEF op, next, q
      <3>4. WellFormed(next) /\ (next.kind = "Add" => DOMAIN next.inputs = 1..2)
            /\ (next.kind = "Relu" => DOMAIN next.inputs = 1..1) /\ next.kind \in {"Relu", "Add"}
        BY <3>1 DEF FusionPair, Fusable
      <3>5. next.kind = "Add" => ~(next.inputs[1] = op.output /\ next.inputs[2] = op.output)
        BY <3>3, <3>4, TwiceRead
      <3>6. TermOf(q, M) = TermOf(next, M)
        BY <3>1, <3>2, <3>5, FusedTerm
      <3>7. q.output = next.output
        BY <3>1, FusedFacts
      <3> QED BY <3>2, <3>6, <3>7 DEF q
    <2> QED BY <2>2, <2>3
  <1>12. ASSUME NEW k \in DOMAIN U, NEW j \in DOMAIN U[k].inputs, U[k].inputs[j] \in DOMAIN M
         PROVE  U[k].inputs[j] \in Outputs(U)
    <2> DEFINE v == U[k].inputs[j]
               i == at[k]
    <2> SUFFICES ASSUME v \notin Outputs(U) PROVE FALSE
      OBVIOUS
    <2>1. v \in Outputs(S)
      BY <1>7, <1>12 DEF IsMeaning
    <2>2. PICK x \in DOMAIN S : v = S[x].output
      BY <2>1 DEF Outputs
    <2>3. v = x - 1 /\ v \in Nat /\ v < Len(S) /\ v + 1 = x
      BY <1>1, <1>3, <1>9, <2>2
    <2>4. Fuses(F, x)
      BY <1>6, <2>3
    <2>5. x \in 1..(Len(S) - 1) /\ x + 1 \in DOMAIN S /\ Fusable(S[x], S[x + 1])
      BY <1>10, <2>4
    <2>6. \A y \in DOMAIN S : y > x + 1 => v \notin Inputs(S[y])
      BY <2>2, <2>5 DEF Reread
    <2>7. \A y \in DOMAIN S : v \in Inputs(S[y]) => y > x
      <3> TAKE y \in DOMAIN S
      <3> HAVE v \in Inputs(S[y])
      <3>1. v < S[y].output /\ S[y].output = y - 1
        BY <1>3, <1>9 DEF WellFormed, Inputs
      <3> QED BY <1>1, <2>3, <3>1
    <2>8. \A y \in DOMAIN S : v \in Inputs(S[y]) => y = x + 1
      BY <1>1, <2>6, <2>7
    <2>9. /\ i \in DOMAIN F /\ ~Absorbed(F, i)
          /\ (Fuses(F, i) => U[k] = Fused(F[i], F[i + 1])) /\ (~Fuses(F, i) => U[k] = F[i])
      BY <1>5 DEF Layout
    <2>10. i # x + 1
      <3>1. Absorbed(F, x + 1)
        BY <1>1, <1>3, <2>4, AbsorberKept
      <3> QED BY <2>9, <3>1
    <2>11. v \notin Inputs(S[i])
      BY <1>3, <2>8, <2>9, <2>10
    <2>12. CASE ~Fuses(F, i)
      <3>1. v \in Inputs(F[i])
        BY <2>9, <2>12 DEF Inputs
      <3>2. Inputs(F[i]) = Inputs(S[i])
        BY <1>3, <2>9 DEF Inputs
      <3> QED BY <2>11, <3>1, <3>2
    <2>13. CASE Fuses(F, i)
      <3> DEFINE op == F[i]
                 next == F[i + 1]
                 q == U[k]
      <3>1. FusionPair(op, next) /\ q = Fused(op, next) /\ op = S[i] /\ next = S[i + 1] /\ i + 1 \in DOMAIN S
        BY <1>3, <1>10, <2>9, <2>13
      <3>2. v \in Inputs(S[i]) \/ (v \in Inputs(S[i + 1]) /\ v # S[i].output)
        <4>1. q.inputs[j] \in Inputs(op) \/ (q.inputs[j] \in Inputs(next) /\ q.inputs[j] # op.output)
          <5> HIDE DEF op, next, q
          <5>1. j \in DOMAIN q.inputs
            BY <1>12 DEF q
          <5> QED BY <3>1, <5>1, FusedWellFormed
        <4> QED BY <3>1, <4>1
      <3>3. i + 1 = x + 1 /\ S[i].output = i - 1
        BY <1>3, <1>9, <2>8, <2>9, <2>11, <3>1, <3>2
      <3>4. i = x
        BY <1>1, <1>3, <2>9, <3>3
      <3> QED BY <2>2, <2>11, <3>2, <3>4
    <2> QED BY <2>12, <2>13
  <1> QED BY <1>6, <1>8, <1>11, <1>12, MeaningAgrees DEF M

\* Two applications of one operation that agree, to arguments that are not all
\* constant, have the same arguments.
LEMMA ApplyAgrees ==
    ASSUME NEW kind, NEW a, NEW b, Apply(kind, a) = Apply(kind, b), ~Constant(a), ~Constant(b),
           NEW i \in DOMAIN a
    PROVE  \E l \in DOMAIN b : b[l] = a[i]
  <1>1. CASE kind = "Add"
    <2> DEFINE X == {a[x] : x \in DOMAIN a}
               Y == {b[x] : x \in DOMAIN b}
               m == Len(a)
               n == Len(b)
    <2>1. Apply("Add", a) = Sum(X, m) /\ Apply("Add", b) = Sum(Y, n)
      BY ApplyAdd
    <2>2. a[i] \in X /\ \A y \in Y : \E l \in DOMAIN b : b[l] = y
      OBVIOUS
    <2> HIDE DEF X, Y, m, n
    <2>3. Sum(X, m) = Sum(Y, n)
      BY <1>1, <2>1
    <2>4. X = Y
      BY <2>3, SumTags
    <2> QED BY <2>2, <2>4
  <1>2. CASE kind = "Mul"
    <2>1. App("Mul", a) = App("Mul", b)
      BY <1>2, ApplyMul
    <2>2. a = b
      BY <2>1, AppTags
    <2> QED BY <2>2
  <1>3. CASE kind \notin {"Add", "Mul"}
    <2>1. App(kind, a) = App(kind, b)
      BY <1>3, ApplyOther
    <2>2. a = b
      BY <2>1, AppTags
    <2> QED BY <2>2
  <1> QED BY <1>1, <1>2, <1>3

LEMMA FusionBackward ==
    ASSUME NEW S, IsSource(S), NEW F, F = Folded(S), NEW U, U = FusedProgram(F),
           NEW i \in 1..(Len(S) - 1), Reread(S, i),
           \A v \in Outputs(U) : Meaning(U)[v] = Meaning(S)[v]
    PROVE  FALSE
  <1> DEFINE M == Meaning(S)
             N == Meaning(U)
             v == S[i].output
  <1>1. Len(S) \in Nat /\ DOMAIN S = 1..Len(S)
    BY PlainAscending DEF IsSource
  <1>2. IsPlain(F)
    BY FoldedPlain
  <1>3. DOMAIN F = DOMAIN S /\ Len(F) = Len(S)
        /\ \A j \in DOMAIN S : TermOf(F[j], M) = TermOf(S[j], M) /\ F[j].inputs = S[j].inputs
                               /\ F[j].output = S[j].output
    BY FoldedFacts
  <1>4. IsSequence(U) /\ \E at : Layout(U, F, at)
    BY <1>2, FusedLayout
  <1>5. PICK at : Layout(U, F, at)
    BY <1>4
  <1>6. /\ Ascending(U)
        /\ \A x \in Nat : x < Len(S) => (x \in Outputs(U) <=> ~Fuses(F, x + 1))
    BY <1>2, <1>3, <1>4, <1>5, FusedAscending
  <1>7. IsMeaning(N, U) /\ IsMeaning(M, S)
    BY <1>6, PlainAscending, MeaningFacts DEF IsSource
  <1>m. M = Meaning(S)
    OBVIOUS
  <1>8. \A x \in Outputs(U) : N[x] = M[x]
    OBVIOUS
  <1> HIDE DEF M, N
  <1>9. i \in DOMAIN S /\ i + 1 \in DOMAIN S /\ i < Len(S) /\ (i - 1) + 1 = i
    BY <1>1
  <1>10. \A j \in DOMAIN S : S[j].output = j - 1 /\ WellFormed(S[j]) /\ S[j].fused = "None"
                             /\ (S[j].kind \in {"Add", "MatMul"} => DOMAIN S[j].inputs = 1..2)
                             /\ (S[j].kind = "Relu" => DOMAIN S[j].inputs = 1..1)
    BY DEF IsSource, IsPlain
  <1>11. Fusable(S[i], S[i + 1]) /\ S[i].kind = "MatMul"
    BY DEF Reread, Fusable
  <1>12. Fuses(F, i)
    BY <1>9, <1>11, FusesSame DEF Fuses
  <1>13. ValueOf(N, v) = Undef /\ v = i - 1
    <2>1. v = i - 1 /\ v \in Nat /\ v < Len(S) /\ v + 1 = i
      BY <1>1, <1>9, <1>10
    <2>2. v \notin Outputs(U)
      BY <1>6, <1>12, <2>1
    <2>3. v \notin DOMAIN N /\ v \in Int /\ v >= 0
      BY <1>7, <2>1, <2>2 DEF IsMeaning
    <2> QED BY <2>1, <2>3, ValueOfInput
  <1>14. ASSUME NEW j \in DOMAIN S, Fuses(F, j)
         PROVE  \E k \in DOMAIN U :
                   /\ FusionPair(F[j], F[j + 1]) /\ j + 1 \in DOMAIN S /\ U[k] = Fused(F[j], F[j + 1])
                   /\ F[j] = S[j] /\ F[j + 1] = S[j + 1]
                   /\ TermOf(U[k], N) = TermOf(F[j + 1], M)
    <2>1. ~Absorbed(F, j) /\ j + 1 \in DOMAIN F
      BY <1>1, <1>3, <1>14, AbsorberKept
    <2>2. FusionPair(F[j], F[j + 1])
      BY <1>2, <1>3, <1>14, FusedPair
    <2>3. PICK k \in DOMAIN U : at[k] = j
      BY <1>3, <1>5, <2>1 DEF Layout
    <2>4. U[k] = Fused(F[j], F[j + 1])
      BY <1>5, <1>14, <2>3 DEF Layout
    <2>5. U[k].output = F[j + 1].output
      <3> DEFINE op == F[j]
                 next == F[j + 1]
                 q == U[k]
      <3>1. FusionPair(op, next) /\ q = Fused(op, next)
        BY <2>2, <2>4
      <3> HIDE DEF op, next, q
      <3>2. q.output = next.output
        BY <3>1, FusedFacts
      <3> QED BY <3>2 DEF q, next
    <2>6. U[k].output \in Outputs(U) /\ N[U[k].output] = TermOf(U[k], N)
      BY <1>7 DEF IsMeaning, Outputs
    <2>7. M[S[j + 1].output] = TermOf(S[j + 1], M)
      BY <1>3, <1>7, <2>1 DEF IsMeaning
    <2>8. TermOf(U[k], N) = TermOf(F[j + 1], M)
      BY <1>3, <1>8, <2>1, <2>5, <2>6, <2>7
    <2>9. F[j] = S[j] /\ F[j + 1] = S[j + 1]
      BY <1>14, FusesSame
    <2> QED BY <1>3, <2>1, <2>2, <2>4, <2>8, <2>9
  <1>15. CASE S[i + 1].inputs = <<v, v>>
    <2>1. PICK k \in DOMAIN U :
             /\ FusionPair(F[i], F[i + 1]) /\ U[k] = Fused(F[i], F[i + 1])
             /\ F[i] = S[i] /\ F[i + 1] = S[i + 1]
             /\ TermOf(U[k], N) = TermOf(F[i + 1], M)
      BY <1>9, <1>12, <1>14
    <2> DEFINE op == F[i]
               next == F[i + 1]
               q == U[k]
    <2>2. FusionPair(op, next) /\ q = Fused(op, next) /\ TermOf(q, N) = TermOf(next, M)
          /\ next.inputs = <<op.output, op.output>>
      BY <1>15, <2>1
    <2> HIDE DEF op, next, q
    <2>3. WellFormed(next) /\ (next.kind = "Add" => DOMAIN next.inputs = 1..2)
          /\ (next.kind = "Relu" => DOMAIN next.inputs = 1..1) /\ next.kind \in {"Relu", "Add"}
      BY <2>2 DEF FusionPair, Fusable
    <2>4. next.kind = "Add" /\ next.inputs[1] = op.output /\ next.inputs[2] = op.output
      BY <2>2, <2>3, TwiceRead
    <2>5. Len(q.inputs) = 2
      BY <2>2, <2>4, FusedFacts
    <2>6. Len(q.inputs) = 3
      BY <2>2, <2>4, FusedAgrees
    <2> QED BY <2>5, <2>6
  <1>16. ASSUME NEW j \in DOMAIN S, j > i + 1, v \in Inputs(S[j]) PROVE FALSE
    <2>1. F[j] = S[j] /\ S[j].kind # "Fill" /\ ~Constant(Args(S[j], M))
      BY <1>9, <1>11, <1>16, <1>m, ProductReader
    <2>2. \A x \in DOMAIN S : \A l \in DOMAIN S[x].inputs : ValueOf(M, S[x].inputs[l]) # Undef
      BY <1>m, SourceDefined
    <2>3. PICK l \in DOMAIN S[j].inputs : S[j].inputs[l] = v
      BY <1>16 DEF Inputs
    <2>4. CASE Absorbed(F, j)
      <3> DEFINE h == j - 1
      <3>1. Fuses(F, h) /\ h \in DOMAIN S /\ h + 1 = j
        BY <1>1, <2>4 DEF Absorbed
      <3>2. S[h].output = h - 1 /\ S[h].output # v
        BY <1>1, <1>9, <1>10, <1>13, <1>16, <3>1
      <3> HIDE DEF h
      <3>3. PICK k \in DOMAIN U :
               /\ FusionPair(F[h], F[h + 1]) /\ U[k] = Fused(F[h], F[h + 1])
               /\ F[h] = S[h] /\ F[h + 1] = S[h + 1]
               /\ TermOf(U[k], N) = TermOf(F[h + 1], M)
        BY <1>14, <3>1
      <3> DEFINE op == S[h]
                 next == S[j]
                 q == U[k]
      <3>4. FusionPair(op, next) /\ q = Fused(op, next) /\ TermOf(q, N) = TermOf(next, M)
        BY <3>1, <3>3
      <3>5. op.output # v /\ l \in DOMAIN next.inputs /\ next.inputs[l] = v
        BY <2>3, <3>2
      <3>6. \A x \in DOMAIN next.inputs : ValueOf(M, next.inputs[x]) # Undef
        BY <2>2
      <3> HIDE DEF op, next, q, v
      <3>7. next.kind \in {"Relu", "Add"} /\ (next.kind = "Add" => DOMAIN next.inputs = 1..2)
            /\ (next.kind = "Relu" => DOMAIN next.inputs = 1..1)
        BY <3>4 DEF FusionPair, Fusable
      <3>8. next.kind = "Relu" => next.inputs[1] = op.output
        BY <3>4, FusedFacts
      <3>9. next.kind = "Add"
        BY <3>5, <3>7, <3>8
      <3>10. /\ next.inputs[1] # op.output => q.inputs[3] = next.inputs[1] /\ next.inputs[2] = op.output
             /\ next.inputs[2] # op.output => q.inputs[3] = next.inputs[2] /\ next.inputs[1] = op.output
        BY <3>4, <3>9, FusedFacts
      <3>11. l = 1 \/ l = 2
        BY <3>5, <3>7, <3>9
      <3>12. q.inputs[3] = v
        BY <3>5, <3>10, <3>11
      <3>13. \E x \in DOMAIN next.inputs : ValueOf(M, next.inputs[x]) = ValueOf(N, q.inputs[3])
        BY <3>4, <3>9, FusedAgrees
      <3> QED BY <1>13, <3>6, <3>12, <3>13
    <2>5. CASE ~Absorbed(F, j) /\ Fuses(F, j)
      <3>1. PICK k \in DOMAIN U :
               /\ FusionPair(F[j], F[j + 1]) /\ j + 1 \in DOMAIN S /\ U[k] = Fused(F[j], F[j + 1])
               /\ F[j] = S[j] /\ F[j + 1] = S[j + 1]
               /\ TermOf(U[k], N) = TermOf(F[j + 1], M)
        BY <1>14, <2>5
      <3> DEFINE op == S[j]
                 x == j + 1
                 next == S[x]
                 q == U[k]
                 a == ValueOf(N, q.inputs[1])
                 b == ValueOf(N, q.inputs[2])
      <3>2. FusionPair(op, next) /\ q = Fused(op, next) /\ TermOf(q, N) = TermOf(next, M)
            /\ x \in DOMAIN S
        BY <3>1
      <3>3. DOMAIN op.inputs = 1..2
        BY <3>2 DEF FusionPair
      <3>4. l = 1 \/ l = 2
        BY <2>3, <3>3
      <3>5. q.inputs[1] = op.inputs[1] /\ q.inputs[2] = op.inputs[2]
            /\ \E y \in DOMAIN next.inputs : ValueOf(M, next.inputs[y]) = Product(q, N)
        <4> HIDE DEF op, next, q
        <4>1. q.inputs[1] = op.inputs[1] /\ q.inputs[2] = op.inputs[2]
          BY <3>2, FusedFacts
        <4>2. \E y \in DOMAIN next.inputs : ValueOf(M, next.inputs[y]) = Product(q, N)
          BY <3>2, FusedAgrees
        <4> QED BY <4>1, <4>2
      <3>6. a = Undef \/ b = Undef
        BY <1>13, <2>3, <3>4, <3>5
      <3>7. PICK y \in DOMAIN S[x].inputs : ValueOf(M, S[x].inputs[y]) = Product(q, N)
        BY <3>5
      <3>8. Product(q, N) = App("MatMul", <<a, b>>)
        BY ProductFacts
      <3> HIDE DEF a, b, q, x
      <3>9. ValueOf(M, S[x].inputs[y]) = App("MatMul", <<a, b>>)
        BY <3>7, <3>8
      <3>10. a # Undef /\ b # Undef
        BY <1>m, <3>2, <3>9, FactorsDefined
      <3> QED BY <3>6, <3>10
    <2>6. CASE ~Absorbed(F, j) /\ ~Fuses(F, j)
      <3>1. PICK k \in DOMAIN U : at[k] = j
        BY <1>3, <1>5, <2>6 DEF Layout
      <3>2. U[k] = S[j]
        BY <1>5, <2>1, <2>6, <3>1 DEF Layout
      <3>3. S[j].output \in Outputs(U) /\ N[S[j].output] = TermOf(S[j], N)
        BY <1>7, <3>2 DEF IsMeaning, Outputs
      <3>4. M[S[j].output] = TermOf(S[j], M)
        BY <1>7 DEF IsMeaning
      <3> DEFINE a == Args(S[j], N)
                 b == Args(S[j], M)
                 kind == S[j].kind
      <3>5. Apply(kind, a) = Apply(kind, b)
        BY <1>8, <1>10, <2>1, <3>3, <3>4, TermOfPlain
      <3>6. l \in DOMAIN a /\ a[l] = Undef
        BY <1>13, <2>3, ArgsFacts
      <3>7. \A x \in DOMAIN b : b[x] # Undef
        BY <2>2, ArgsFacts
      <3>8. ~Constant(b)
        BY <2>1
      <3> HIDE DEF a, b, kind
      <3>9. ~Constant(a)
        BY <3>6, UndefTag DEF Constant
      <3>10. \E x \in DOMAIN b : b[x] = a[l]
        BY <3>5, <3>6, <3>8, <3>9, ApplyAgrees
      <3> QED BY <3>6, <3>7, <3>10
    <2> QED BY <2>4, <2>5, <2>6
  <1> QED BY <1>15, <1>16 DEF Reread

-----------------------------------------------------------------------------
(* The passes together.                                                    *)

\* A MatMul that has absorbed no addition has its two factors and no more.
TwoFactors(prog) ==
    \A k \in DOMAIN prog :
        prog[k].kind = "MatMul" /\ prog[k].fused # "Add" => DOMAIN prog[k].inputs = 1..2

\* The module after each pass.
AfterFusion(S) == FusedProgram(Folded(S))
AfterTiling(S, target) == Tiled(AfterFusion(S), target)
AfterPasses(S, target) == Pruned(AfterTiling(S, target))

LEMMA AfterFusionFacts ==
    ASSUME NEW S, IsSource(S), NEW U, U = AfterFusion(S)
    PROVE  /\ Ascending(U) /\ TwoFactors(U)
           /\ \A v \in Outputs(U) : v \in Nat /\ v < Len(S)
           /\ (\A v \in Outputs(U) : Meaning(U)[v] = Meaning(S)[v])
                 <=> ~ \E i \in 1..(Len(S) - 1) : Reread(S, i)
  <1> DEFINE F == Folded(S)
  <1>1. F = Folded(S) /\ U = FusedProgram(F)
    BY DEF AfterFusion
  <1>2. IsPlain(F) /\ Len(F) = Len(S)
    BY FoldedPlain, FoldedFacts
  <1> HIDE DEF F
  <1>3. IsSequence(U) /\ \E at : Layout(U, F, at)
    BY <1>1, <1>2, FusedLayout
  <1>4. PICK at : Layout(U, F, at)
    BY <1>3
  <1>5. Ascending(U) /\ \A v \in Outputs(U) : v \in Nat /\ v < Len(S)
    BY <1>2, <1>3, <1>4, FusedAscending
  <1>6. ASSUME NEW k \in DOMAIN U, U[k].kind = "MatMul", U[k].fused # "Add"
        PROVE  DOMAIN U[k].inputs = 1..2
    <2> DEFINE i == at[k]
    <2>1. i \in DOMAIN F /\ (Fuses(F, i) => U[k] = Fused(F[i], F[i + 1])) /\ (~Fuses(F, i) => U[k] = F[i])
      BY <1>4 DEF Layout
    <2> HIDE DEF i
    <2>2. CASE ~Fuses(F, i)
      BY <1>2, <1>6, <2>1, <2>2 DEF IsPlain
    <2>3. CASE Fuses(F, i)
      <3> DEFINE op == F[i]
                 next == F[i + 1]
                 q == U[k]
                 s == q.inputs
      <3>1. FusionPair(op, next) /\ q = Fused(op, next) /\ q.fused # "Add"
        BY <1>2, <1>6, <2>1, <2>3, FusedPair
      <3> HIDE DEF op, next, q
      <3>2. IsSequence(s) /\ Len(s) = 2
        <4>1. IsSequence(s) /\ (Len(s) = 2 \/ next.kind = "Add") /\ q.fused = next.kind
          BY <3>1, FusedFacts
        <4> QED BY <3>1, <4>1
      <3> HIDE DEF s
      <3>3. DOMAIN s = 1..2
        BY <3>2, SequenceFacts
      <3> QED BY <3>3 DEF s, q
    <2> QED BY <2>2, <2>3
  <1>7. ASSUME \A i \in 1..(Len(S) - 1) : ~Reread(S, i)
        PROVE  \A v \in Outputs(U) : Meaning(U)[v] = Meaning(S)[v]
    BY <1>1, <1>7, FusionForward
  <1>8. ASSUME \A v \in Outputs(U) : Meaning(U)[v] = Meaning(S)[v], NEW i \in 1..(Len(S) - 1), Reread(S, i)
        PROVE  FALSE
    BY <1>1, <1>8, FusionBackward
  <1> QED BY <1>5, <1>6, <1>7, <1>8 DEF TwoFactors

LEMMA AfterTilingFacts ==
    ASSUME NEW S, IsSource(S), NEW U, U = AfterFusion(S), NEW target, NEW T, T = AfterTiling(S, target)
    PROVE  /\ Ascending(T) /\ TwoFactors(T) /\ DOMAIN T = DOMAIN U /\ Len(T) = Len(U)
           /\ Outputs(T) = Outputs(U) /\ \A v \in Outputs(U) : Meaning(T)[v] = Meaning(U)[v]
           /\ \A k \in DOMAIN U : T[k].id = U[k].id /\ T[k].output = U[k].output
  <1>1. Ascending(U) /\ TwoFactors(U) /\ T = Tiled(U, target)
    BY AfterFusionFacts DEF AfterTiling
  <1>2. /\ Ascending(T) /\ DOMAIN T = DOMAIN U /\ Len(T) = Len(U) /\ Outputs(T) = Outputs(U)
        /\ \A k \in DOMAIN U :
              /\ T[k].id = U[k].id /\ T[k].kind = U[k].kind /\ T[k].fused = U[k].fused
              /\ T[k].inputs = U[k].inputs /\ T[k].output = U[k].output
        /\ \A v \in Outputs(U) : Meaning(T)[v] = Meaning(U)[v]
    BY <1>1, TiledFacts
  <1>3. TwoFactors(T)
    BY <1>1, <1>2 DEF TwoFactors
  <1> QED BY <1>2, <1>3

LEMMA AfterPassesFacts ==
    ASSUME NEW S, IsSource(S), NEW target, NEW P, P = AfterPasses(S, target)
    PROVE  /\ Ascending(P) /\ TwoFactors(P)
           /\ \A v \in Outputs(P) : v \in Nat /\ v < Len(S)
           /\ (\A i \in 1..(Len(S) - 1) : ~Reread(S, i))
                 => \A v \in Outputs(P) : Meaning(P)[v] = Meaning(S)[v]
  <1> DEFINE U == AfterFusion(S)
             T == AfterTiling(S, target)
  <1>1. U = AfterFusion(S) /\ T = AfterTiling(S, target) /\ P = Pruned(T)
    BY DEF AfterPasses
  <1> HIDE DEF U, T
  <1>2. /\ \A v \in Outputs(U) : v \in Nat /\ v < Len(S)
        /\ (\A v \in Outputs(U) : Meaning(U)[v] = Meaning(S)[v])
              <=> ~ \E i \in 1..(Len(S) - 1) : Reread(S, i)
    BY <1>1, AfterFusionFacts
  <1>3. /\ Ascending(T) /\ TwoFactors(T) /\ Outputs(T) = Outputs(U)
        /\ \A v \in Outputs(U) : Meaning(T)[v] = Meaning(U)[v]
    BY <1>1, AfterTilingFacts
  <1>4. /\ Ascending(P)
        /\ \A k \in DOMAIN P : \E i \in DOMAIN T : P[k] = T[i]
        /\ \A v \in Outputs(P) : v \in Outputs(T) /\ Meaning(P)[v] = Meaning(T)[v]
    BY <1>1, <1>3, PrunedFacts
  <1>5. TwoFactors(P)
    BY <1>3, <1>4 DEF TwoFactors
  <1> QED BY <1>2, <1>3, <1>4, <1>5

\* Where nothing is fused, the last operation is the root and is kept.
LEMMA UnfusedRoot ==
    ASSUME NEW S, IsSource(S), S # <<>>, \A i \in 1..(Len(S) - 1) : ~Fusable(S[i], S[i + 1]),
           NEW target, NEW P, P = AfterPasses(S, target)
    PROVE  S[Len(S)].output \in Outputs(P)
  <1> DEFINE F == Folded(S)
             U == AfterFusion(S)
             T == AfterTiling(S, target)
             m == Len(S)
  <1>1. F = Folded(S) /\ U = AfterFusion(S) /\ U = FusedProgram(F) /\ T = AfterTiling(S, target) /\ P = Pruned(T)
    BY DEF AfterFusion, AfterPasses
  <1>2. IsPlain(F) /\ Len(F) = m /\ DOMAIN F = DOMAIN S
        /\ \A i \in DOMAIN S : F[i].id = S[i].id /\ F[i].output = S[i].output
    BY FoldedPlain, FoldedFacts
  <1>3. m \in Nat /\ DOMAIN S = 1..m
    BY PlainAscending DEF IsSource
  <1>4. m # 0
    <2>1. IsSequence(S)
      BY DEF IsSource, IsPlain
    <2>2. S = [i \in 1..m |-> S[i]]
      BY <2>1, SequenceFacts
    <2>3. m = 0 => S = <<>>
      BY <2>2
    <2> QED BY <2>3
  <1>5. U = AfterFusion(S) /\ T = AfterTiling(S, target)
    OBVIOUS
  <1> HIDE DEF F, U, T
  <1>6. /\ Ascending(T) /\ DOMAIN T = DOMAIN U /\ Len(T) = Len(U)
         /\ \A l \in DOMAIN U : T[l].id = U[l].id /\ T[l].output = U[l].output
    BY <1>5, AfterTilingFacts
  <1>7. \A i \in DOMAIN F : ~Fuses(F, i)
    <2> TAKE i \in DOMAIN F
    <2>1. Fuses(F, i) <=> Fuses(S, i)
      BY <1>1, <1>2, FusesSame
    <2>2. Fuses(S, i) => i \in 1..(m - 1) /\ Fusable(S[i], S[i + 1])
      BY <1>2, <1>3 DEF Fuses
    <2> QED BY <2>1, <2>2
  <1>8. IsSequence(U) /\ \E at : Layout(U, F, at)
    BY <1>1, <1>2, FusedLayout
  <1>9. PICK at : Layout(U, F, at)
    BY <1>8
  <1>10. m \in DOMAIN F /\ ~Absorbed(F, m) /\ ~Fuses(F, m)
    BY <1>2, <1>3, <1>4, <1>7 DEF Absorbed
  <1>11. PICK k \in DOMAIN U : U[k] = F[m]
    BY <1>9, <1>10 DEF Layout
  <1>12. Len(U) = m
    <2> DEFINE A == FusedAt(F)
               K == DOMAIN F \ Skipped(F)[m]
    <2>1. U = Pick(A, K)
      BY <1>1, <1>2 DEF FusedProgram
    <2>2. DOMAIN A = 1..m /\ A = [i \in 1..m |-> A[i]]
      BY <1>2, <1>3 DEF FusedAt
    <2>3. \A n \in 1..m : n \in K
      <3>1. \A x : x \in Skipped(F)[m] <=> \E i \in 1..m : Fuses(F, i) /\ x = i + 1
        BY <1>2, <1>3, SkippedFacts
      <3> QED BY <1>2, <1>3, <1>7, <3>1
    <2> HIDE DEF A, K
    <2>4. Len(A) = m
      BY <1>3, <2>2, FunctionIsSequence
    <2> QED BY <1>3, <2>1, <2>3, <2>4, PickAll
  <1>13. S[m].id = m - 1 /\ m \in DOMAIN S
    BY <1>2, <1>10 DEF IsSource, IsPlain
  <1>14. T[k].id = Len(T) - 1 /\ k \in DOMAIN T /\ T[k].output = S[m].output
    BY <1>2, <1>11, <1>12, <1>6, <1>13
  <1>15. PICK l \in DOMAIN P : P[l] = T[k]
    BY <1>1, <1>6, <1>14, PrunedFacts
  <1> QED BY <1>14, <1>15 DEF Outputs

-----------------------------------------------------------------------------
(* Code generation.                                                        *)

Supported == {"MatMul", "Relu", "Add", "Opaque"}

\* A payload generated without an error has one function for each operation,
\* in order, and is named after the last.
KernelOf(k, prog) ==
    k.ok =>
        /\ IsSequence(k.functions) /\ Len(k.functions) = Len(prog)
        /\ \A i \in 1..Len(prog) :
              /\ k.functions[i].op = prog[i] /\ prog[i].kind \in Supported
              /\ ~Spirv => k.functions[i].entry = kernel_name(prog[i])
        /\ Len(prog) # 0 => k.name = kernel_name(prog[Len(prog)])

\* One turn of the loop.
Turn(acc, op, new) ==
    /\ "ok" \in DOMAIN new
    /\ new.ok =>
          /\ acc.ok /\ op.kind \in Supported /\ new.name = kernel_name(op)
          /\ \E f : /\ new.functions = Append(acc.functions, f)
                    /\ f.op = op /\ (~Spirv => f.entry = kernel_name(op))

LEMMA GenerateTurn ==
    ASSUME NEW acc, "ok" \in DOMAIN acc, NEW op, NEW new, new = GenerateOp(acc, op)
    PROVE  Turn(acc, op, new)
  <1>1. CASE ~acc.ok \/ op.kind \notin Supported
    <2>1. new = [acc EXCEPT !.ok = FALSE]
      BY <1>1 DEF GenerateOp, Supported
    <2> QED BY <2>1 DEF Turn
  <1>2. CASE acc.ok /\ op.kind \in Supported
    <2> DEFINE e == IF Spirv THEN <<"main">> ELSE kernel_name(op)
               f == [entry |-> e, op |-> op]
               n == kernel_name(op)
               b == BlockAfter(op, acc.block_size)
    <2>1. new = [ok |-> TRUE, name |-> n, functions |-> Append(acc.functions, f), block_size |-> b]
      BY <1>2 DEF GenerateOp, Supported
    <2>2. ~Spirv => e = n
      OBVIOUS
    <2> HIDE DEF e, n, b
    <2>3. f.op = op /\ f.entry = e
      OBVIOUS
    <2> HIDE DEF f
    <2>4. "ok" \in DOMAIN new /\ new.name = n /\ new.functions = Append(acc.functions, f)
      BY <2>1
    <2> QED BY <1>2, <2>2, <2>3, <2>4 DEF n, Turn
  <1> QED BY <1>1, <1>2

LEMMA GenerateFacts ==
    ASSUME NEW prog, Len(prog) \in Nat
    PROVE  KernelOf(Generate(prog)[Len(prog)], prog)
  <1> DEFINE m == Len(prog)
             K == Generate(prog)
             Upto(n) == /\ "ok" \in DOMAIN K[n]
                        /\ K[n].ok =>
                              /\ IsSequence(K[n].functions) /\ Len(K[n].functions) = n
                              /\ \A i \in 1..n :
                                    /\ K[n].functions[i].op = prog[i] /\ prog[i].kind \in Supported
                                    /\ ~Spirv => K[n].functions[i].entry = kernel_name(prog[i])
                              /\ n # 0 => K[n].name = kernel_name(prog[n])
             G == {n \in Nat : Upto(n)}
  <1>1. K[0] = NoKernel /\ \A n \in 1..m : K[n] = GenerateOp(K[n - 1], prog[n])
    BY GenerateDef DEF GenerateStep
  <1>2. m \in Nat
    OBVIOUS
  <1> HIDE DEF m, K
  <1>3. 0 \in G
    <2>1. "ok" \in DOMAIN NoKernel /\ NoKernel.functions = <<>>
      BY DEF NoKernel
    <2>2. Len(<<>>) = 0 /\ IsSequence(<<>>)
      BY EmptyIsSequence
    <2> QED BY <1>1, <2>1, <2>2
  <1>4. ASSUME NEW n \in Nat, n < m, n \in G PROVE n + 1 \in G
    <2> DEFINE acc == K[n]
               op == prog[n + 1]
               new == K[n + 1]
    <2>1. n + 1 \in 1..m /\ (n + 1) - 1 = n
      BY <1>2, <1>4
    <2>2. new = GenerateOp(acc, op)
      BY <1>1, <2>1
    <2>3. "ok" \in DOMAIN acc
      BY <1>4
    <2>4. acc.ok => /\ IsSequence(acc.functions) /\ Len(acc.functions) = n
                    /\ \A i \in 1..n :
                          /\ acc.functions[i].op = prog[i] /\ prog[i].kind \in Supported
                          /\ ~Spirv => acc.functions[i].entry = kernel_name(prog[i])
      BY <1>4
    <2> HIDE DEF acc, op, new
    <2>5. /\ "ok" \in DOMAIN new
          /\ new.ok =>
                /\ acc.ok /\ op.kind \in Supported /\ new.name = kernel_name(op)
                /\ \E f : /\ new.functions = Append(acc.functions, f)
                          /\ f.op = op /\ (~Spirv => f.entry = kernel_name(op))
      <3>1. Turn(acc, op, new)
        BY <2>2, <2>3, GenerateTurn
      <3> QED BY <3>1 DEF Turn
    <2>6. ASSUME new.ok
          PROVE  /\ IsSequence(new.functions) /\ Len(new.functions) = n + 1
                 /\ \A i \in 1..(n + 1) :
                       /\ new.functions[i].op = prog[i] /\ prog[i].kind \in Supported
                       /\ ~Spirv => new.functions[i].entry = kernel_name(prog[i])
                 /\ new.name = kernel_name(prog[n + 1])
      <3>1. PICK f : /\ new.functions = Append(acc.functions, f)
                     /\ f.op = op /\ (~Spirv => f.entry = kernel_name(op))
        BY <2>5, <2>6
      <3> DEFINE s == acc.functions
                 t == new.functions
      <3>2. IsSequence(s) /\ Len(s) = n /\ t = Append(s, f)
            /\ \A i \in 1..n : /\ s[i].op = prog[i] /\ prog[i].kind \in Supported
                               /\ ~Spirv => s[i].entry = kernel_name(prog[i])
        BY <2>4, <2>5, <2>6, <3>1
      <3> HIDE DEF s, t
      <3>3. IsSequence(t) /\ Len(t) = n + 1 /\ t[n + 1] = f /\ \A i \in 1..n : t[i] = s[i]
        <4>1. DOMAIN s = 1..n
          BY <3>2, SequenceFacts
        <4> QED BY <3>2, <4>1, AppendSequence
      <3>4. \A i \in 1..(n + 1) : i \in 1..n \/ i = n + 1
        OBVIOUS
      <3>5. \A i \in 1..(n + 1) : /\ t[i].op = prog[i] /\ prog[i].kind \in Supported
                                  /\ ~Spirv => t[i].entry = kernel_name(prog[i])
        BY <2>5, <2>6, <3>1, <3>2, <3>3, <3>4 DEF op
      <3> QED BY <2>5, <2>6, <3>3, <3>5 DEF t, op
    <2>7. Upto(n + 1)
      BY <2>5, <2>6 DEF new
    <2> QED BY <2>7
  <1>5. \A n \in Nat : n < m /\ n \in G => n + 1 \in G
    BY <1>4
  <1> HIDE DEF G
  <1>6. m \in 0..m /\ \A n \in 0..m : n \in G
    BY <1>2, <1>3, <1>5, Induction
  <1>7. m \in G
    BY <1>6
  <1> QED BY <1>7 DEF G, K, m, KernelOf

\* The body of a function computes the term of its operation, unless it leaves
\* out an addition or stands for an opaque operation.
LEMMA BodyTerm ==
    ASSUME NEW op, WellFormed(op), op.kind \in {"MatMul", "Relu", "Add"}, op.fused # "Add",
           op.kind = "MatMul" => DOMAIN op.inputs = 1..2, NEW env
    PROVE  Body(op, Args(op, env)) = TermOf(op, env)
  <1> DEFINE a == Args(op, env)
  <1>1. DOMAIN a = DOMAIN op.inputs /\ a = [i \in DOMAIN op.inputs |-> a[i]]
        /\ \A i \in DOMAIN op.inputs : a[i] = ValueOf(env, op.inputs[i])
    BY ArgsFacts
  <1>2. CASE op.kind # "MatMul"
    <2>1. op.fused = "None"
      BY <1>2 DEF WellFormed
    <2>2. TermOf(op, env) = Apply(op.kind, a)
      BY <2>1, TermOfPlain
    <2> HIDE DEF a
    <2>3. Body(op, a) = Apply(op.kind, a)
      BY <1>2 DEF Body
    <2> QED BY <2>2, <2>3 DEF a
  <1>3. CASE op.kind = "MatMul"
    <2>1. Product(op, env) = Apply("MatMul", <<a[1], a[2]>>)
      BY <1>1, <1>3 DEF Product
    <2>2. op.fused \in {"None", "Relu"}
      BY DEF WellFormed
    <2>3. CASE op.fused = "None"
      <3>1. TermOf(op, env) = Apply("MatMul", a)
        BY <1>3, <2>3, TermOfPlain
      <3>2. a = [i \in 1..2 |-> a[i]]
        BY <1>1, <1>3
      <3> HIDE DEF a
      <3>3. a = <<a[1], a[2]>>
        BY <3>2
      <3>4. Body(op, a) = Apply("MatMul", <<a[1], a[2]>>)
        BY <1>3, <2>3 DEF Body
      <3> QED BY <3>1, <3>3, <3>4 DEF a
    <2>4. CASE op.fused = "Relu"
      <3> DEFINE s == op.inputs
                 c == FusedArgs(op, env)
                 p == Product(op, env)
      <3>1. Len(s) = 2
        <4>1. IsSequence(s) /\ DOMAIN s = 1..2
          BY <1>3 DEF WellFormed
        <4> HIDE DEF s
        <4> QED BY <4>1, LengthTwo
      <3>2. TermOf(op, env) = Apply("Relu", c)
        BY <1>3, <2>4, TermOfFused DEF FusedArgs
      <3>3. c[1] = p /\ c = [i \in 1..1 |-> c[i]]
        BY <3>1, FusedArgsFacts
      <3> HIDE DEF a, c, p
      <3>4. c = <<p>>
        BY <3>3
      <3>5. Body(op, a) = Apply("Relu", <<Apply("MatMul", <<a[1], a[2]>>)>>)
        BY <1>3, <2>4 DEF Body
      <3> QED BY <2>1, <3>2, <3>4, <3>5 DEF a, p
    <2> QED BY <2>2, <2>3, <2>4
  <1> QED BY <1>2, <1>3

\* Running the functions in order computes the meaning of the module.
LEMMA RunsMeaning ==
    ASSUME NEW prog, Ascending(prog), TwoFactors(prog), NEW functions, Len(functions) = Len(prog),
           \A k \in DOMAIN prog :
              /\ functions[k].op = prog[k]
              /\ prog[k].kind \in {"MatMul", "Relu", "Add"} /\ prog[k].fused # "Add"
    PROVE  Runs(functions)[Len(functions)] = Meaning(prog)
  <1> DEFINE m == Len(prog)
             R == Runs(functions)
             E == Envs(prog)
             G == {n \in Nat : R[n] = E[n]}
  <1>1. m \in Nat /\ DOMAIN prog = 1..m
    BY SequenceFacts DEF Ascending
  <1>2. /\ R[0] = [v \in {} |-> <<"undef">>]
        /\ \A n \in 1..m : R[n] = RunsStep(functions, n, R[n - 1])
    BY <1>1, RunsDef
  <1>3. /\ E[0] = [v \in {} |-> <<"undef">>]
        /\ \A n \in 1..m : E[n] = EnvsStep(prog, n, E[n - 1])
    BY <1>1, EnvsDef
  <1>4. R[Len(functions)] = R[m] /\ Meaning(prog) = E[m]
    BY DEF Meaning
  <1> HIDE DEF m, R, E
  <1>5. 0 \in G
    BY <1>2, <1>3
  <1>6. ASSUME NEW n \in Nat, n < m, n \in G PROVE n + 1 \in G
    <2> DEFINE op == prog[n + 1]
               env == E[n]
    <2>1. n + 1 \in 1..m /\ (n + 1) - 1 = n
      BY <1>1, <1>6
    <2>2. R[n] = env
      BY <1>6
    <2>3. R[n + 1] = Insert(env, op.output, Body(op, Args(op, env)))
      <3>1. functions[n + 1].op = op
        BY <1>1, <2>1
      <3>2. R[n + 1] = RunsStep(functions, n + 1, env)
        BY <1>2, <2>1, <2>2
      <3> HIDE DEF op, env
      <3> QED BY <3>1, <3>2 DEF RunsStep, Args
    <2>4. E[n + 1] = Insert(env, op.output, TermOf(op, env))
      BY <1>3, <2>1 DEF EnvsStep
    <2>5. WellFormed(op) /\ op.kind \in {"MatMul", "Relu", "Add"} /\ op.fused # "Add"
          /\ (op.kind = "MatMul" => DOMAIN op.inputs = 1..2)
      BY <1>1, <2>1 DEF Ascending, TwoFactors
    <2> HIDE DEF op, env
    <2>6. Body(op, Args(op, env)) = TermOf(op, env)
      BY <2>5, BodyTerm
    <2> QED BY <2>3, <2>4, <2>6
  <1>7. \A n \in Nat : n < m /\ n \in G => n + 1 \in G
    BY <1>6
  <1> HIDE DEF G
  <1>8. m \in 0..m /\ \A n \in 0..m : n \in G
    BY <1>1, <1>5, <1>7, Induction
  <1>9. R[m] = E[m]
    BY <1>8 DEF G
  <1> QED BY <1>4, <1>9 DEF R

-----------------------------------------------------------------------------
(* The invariant: the source is a module a caller can build, and the       *)
(* operations are what the passes run so far make of it.                   *)

SourceInv == IsSource(source)

StageInv ==
    /\ stage \in {"build", "folded", "fused", "tiled", "done", "generated"}
    /\ stage = "build" => ops = source
    /\ stage = "folded" => ops = Folded(source)
    /\ stage = "fused" => ops = AfterFusion(source)
    /\ stage = "tiled" => ops = AfterTiling(source, backend)
    /\ stage \in {"done", "generated"} => ops = AfterPasses(source, backend)

KernelInv == stage = "generated" => KernelOf(kernel, ops)

PipelineInv == SourceInv /\ StageInv /\ KernelInv

LEMMA EmptySource == IsSource(<<>>)
  <1>1. DOMAIN <<>> = {}
    OBVIOUS
  <1> QED BY <1>1, EmptyIsSequence DEF IsSource, IsPlain

\* A new operation.
LEMMA NewOp ==
    ASSUME NEW id, NEW kind, NEW value, NEW inputs, NEW op, op = OmniOp(id, kind, value, inputs)
    PROVE  /\ IsOp(op) /\ op.id = id /\ op.kind = kind /\ op.inputs = inputs /\ op.output = id
           /\ op.fused = "None"
  BY DEF OmniOp, IsOp, Fields

LEMMA ArityFacts ==
    ASSUME NEW kind \in OpKinds
    PROVE  /\ Arity(kind) \in Nat
           /\ kind \in {"Add", "Mul", "MatMul"} => Arity(kind) = 2
           /\ kind = "Relu" => Arity(kind) = 1
           /\ kind = "Fill" => Arity(kind) = 0
  BY DEF Arity, OpKinds

\* A module stays one that a caller can build when an operation is pushed that
\* reads externals and older values.
LEMMA PushSource ==
    ASSUME NEW S, IsSource(S), NEW op, NEW T, T = Append(S, op),
           IsOp(op), op.id = Len(S), op.output = Len(S), op.fused = "None", op.kind \in OpKinds,
           NEW n \in Nat, IsSequence(op.inputs), DOMAIN op.inputs = 1..n,
           \A j \in 1..n : op.inputs[j] \in Int /\ op.inputs[j] < Len(S),
           op.kind \in {"Add", "Mul", "MatMul"} => n = 2, op.kind = "Relu" => n = 1,
           op.kind = "Fill" => n = 0
    PROVE  IsSource(T)
  <1> DEFINE m == Len(S)
  <1>1. IsSequence(S) /\ m \in Nat /\ DOMAIN S = 1..m
    BY PlainAscending DEF IsSource, IsPlain
  <1>2. /\ IsSequence(T) /\ DOMAIN T = DOMAIN S \cup {m + 1}
        /\ T[m + 1] = op /\ \A i \in DOMAIN S : T[i] = S[i]
    BY <1>1, AppendSequence
  <1>3. WellFormed(op)
    <2>1. op.id \in Int /\ op.output \in Nat
      BY <1>1
    <2>2. op.kind = "MatMul" => 1 \in DOMAIN op.inputs /\ 2 \in DOMAIN op.inputs
      OBVIOUS
    <2> QED BY <2>1, <2>2 DEF WellFormed
  <1>4. (m + 1) - 1 = m
    BY <1>1
  <1>5. ASSUME NEW i \in DOMAIN T
        PROVE  /\ WellFormed(T[i])
               /\ T[i].id = i - 1 /\ T[i].output = i - 1 /\ T[i].fused = "None"
               /\ T[i].kind \in {"Add", "Mul", "MatMul"} => DOMAIN T[i].inputs = 1..2
               /\ T[i].kind = "Relu" => DOMAIN T[i].inputs = 1..1
               /\ T[i].kind = "Fill" => DOMAIN T[i].inputs = {}
    <2>1. CASE i = m + 1
      <3>1. T[i] = op /\ i - 1 = m
        BY <1>2, <1>4, <2>1
      <3>2. 1..0 = {}
        OBVIOUS
      <3> QED BY <1>3, <3>1, <3>2
    <2>2. CASE i \in DOMAIN S
      BY <1>2, <2>2 DEF IsSource, IsPlain
    <2> QED BY <1>2, <2>1, <2>2
  <1> QED BY <1>2, <1>5 DEF IsSource, IsPlain

LEMMA PushStep ==
    ASSUME PipelineInv, push_op, kernel' = kernel
    PROVE  PipelineInv'
  <1>1. PICK kind \in Kinds :
           \E inputs \in [1..Arity(kind) -> Externals \cup Outputs(ops)],
              value \in IF kind = "Fill" THEN Consts ELSE {0} :
                 ops' = Append(ops, OmniOp(Len(ops), kind, value, inputs))
    BY DEF push_op
  <1>2. PICK inputs \in [1..Arity(kind) -> Externals \cup Outputs(ops)],
             value \in IF kind = "Fill" THEN Consts ELSE {0} :
                ops' = Append(ops, OmniOp(Len(ops), kind, value, inputs))
    BY <1>1
  <1>3. stage = "build" /\ stage' = "build" /\ source' = ops' /\ ops = source /\ IsSource(ops)
    BY DEF push_op, PipelineInv, SourceInv, StageInv
  <1>4. kind \in OpKinds
    BY MlirAssumption DEF OpKinds
  <1> DEFINE op == OmniOp(Len(ops), kind, value, inputs)
             T == ops'
             n == Arity(kind)
             m == Len(ops)
  <1>5. /\ IsOp(op) /\ op.id = m /\ op.kind = kind /\ op.inputs = inputs /\ op.output = m
        /\ op.fused = "None"
    BY NewOp
  <1>6. T = Append(ops, op)
    BY <1>2
  <1>7. n \in Nat /\ (kind \in {"Add", "Mul", "MatMul"} => n = 2) /\ (kind = "Relu" => n = 1)
        /\ (kind = "Fill" => n = 0)
    BY <1>4, ArityFacts
  <1>8. /\ m \in Nat
        /\ \A v \in Outputs(ops) : v \in Int /\ v < m
    <2>1. m \in Nat /\ DOMAIN ops = 1..m /\ \A i \in DOMAIN ops : ops[i].output = i - 1
      BY <1>3, PlainAscending DEF IsSource, IsPlain
    <2>2. \A i \in 1..m : i - 1 \in Int /\ i - 1 < m
      BY <2>1
    <2> QED BY <2>1, <2>2 DEF Outputs
  <1> HIDE DEF op, T, n
  <1>9. \A j \in 1..n : inputs[j] \in Int /\ inputs[j] < m
    <2> TAKE j \in 1..n
    <2>1. inputs[j] \in Externals \/ inputs[j] \in Outputs(ops)
      BY <1>2 DEF n
    <2>2. inputs[j] \in Externals => inputs[j] \in Int /\ inputs[j] < 0
      BY MlirAssumption
    <2> QED BY <1>8, <2>1, <2>2
  <1>10. DOMAIN inputs = 1..n /\ inputs = [i \in 1..n |-> inputs[i]]
    BY <1>2 DEF n
  <1>11. IsSequence(inputs)
    BY <1>7, <1>10, FunctionIsSequence
  <1>12. IsSource(T)
    BY <1>3, <1>4, <1>5, <1>6, <1>7, <1>9, <1>10, <1>11, PushSource
  <1>13. IsSource(source')
    BY <1>3, <1>12 DEF T
  <1> QED BY <1>3, <1>13 DEF PipelineInv, SourceInv, StageInv, KernelInv

LEMMA LiftStep ==
    ASSUME PipelineInv, lift_ptx
    PROVE  PipelineInv'
  <1>1. PICK kind \in LiftedKinds : ops' = <<OmniOp(0, kind, 0, <<-1, -2>>)>>
    BY DEF lift_ptx
  <1>2. stage' = "build" /\ source' = ops'
    BY DEF lift_ptx
  <1> DEFINE t == <<-1, -2>>
             op == OmniOp(0, kind, 0, t)
             S == <<>>
             T == ops'
  <1>3. IsOp(op) /\ op.id = 0 /\ op.kind = kind /\ op.inputs = t /\ op.output = 0 /\ op.fused = "None"
    BY NewOp
  <1>4. kind \in OpKinds /\ kind \notin {"Relu", "Fill"}
    BY DEF LiftedKinds, OpKinds
  <1>5. DOMAIN t = 1..2 /\ t = [i \in 1..2 |-> t[i]] /\ \A j \in 1..2 : t[j] \in Int /\ t[j] < 0
    OBVIOUS
  <1>6. T = Append(S, op) /\ Len(S) = 0 /\ IsSource(S)
    BY <1>1, EmptySource
  <1> HIDE DEF t, op, S, T
  <1>7. IsSequence(t)
    BY <1>5, FunctionIsSequence
  <1>8. IsSource(T)
    <2> DEFINE n == 2
    <2>1. n \in Nat /\ n = 2
      OBVIOUS
    <2> HIDE DEF n
    <2> QED BY <1>3, <1>4, <1>5, <1>6, <1>7, <2>1, PushSource
  <1>9. IsSource(source')
    BY <1>2, <1>8 DEF T
  <1> QED BY <1>2, <1>9 DEF PipelineInv, SourceInv, StageInv, KernelInv

LEMMA PassStep ==
    ASSUME PipelineInv, Pass, kernel' = kernel
    PROVE  PipelineInv'
  <1>1. source' = source /\ backend' = backend /\ stage' # "generated" /\ stage' # "build"
    BY DEF Pass, run_constant_folding, run_operator_fusion, run_loop_tiling, run_dce
  <1>2. CASE run_constant_folding
    BY <1>1, <1>2 DEF run_constant_folding, PipelineInv, SourceInv, StageInv, KernelInv
  <1>3. CASE run_operator_fusion
    BY <1>1, <1>3 DEF run_operator_fusion, PipelineInv, SourceInv, StageInv, KernelInv, AfterFusion
  <1>4. CASE run_loop_tiling
    BY <1>1, <1>4 DEF run_loop_tiling, PipelineInv, SourceInv, StageInv, KernelInv, AfterTiling
  <1>5. CASE run_dce
    BY <1>1, <1>5 DEF run_dce, PipelineInv, SourceInv, StageInv, KernelInv, AfterPasses
  <1> QED BY <1>2, <1>3, <1>4, <1>5 DEF Pass

LEMMA GenerateStepInv ==
    ASSUME PipelineInv, generate
    PROVE  PipelineInv'
  <1>1. stage = "done" /\ stage' = "generated" /\ ops' = ops /\ source' = source /\ backend' = backend
        /\ kernel' = Generate(ops)[Len(ops)]
    BY DEF generate
  <1>2. IsSource(source) /\ ops = AfterPasses(source, backend)
    BY <1>1 DEF PipelineInv, SourceInv, StageInv
  <1>3. Ascending(ops)
    BY <1>2, AfterPassesFacts
  <1>4. Len(ops) \in Nat
    BY <1>3, SequenceFacts DEF Ascending
  <1> DEFINE k == Generate(ops)[Len(ops)]
  <1>5. KernelOf(k, ops)
    BY <1>4, GenerateFacts
  <1> HIDE DEF k
  <1>6. kernel' = k
    BY <1>1 DEF k
  <1>7. KernelOf(kernel, ops)'
    BY <1>1, <1>5, <1>6 DEF KernelOf, Spirv
  <1> QED BY <1>1, <1>2, <1>7 DEF PipelineInv, SourceInv, StageInv, KernelInv

(* At each stage of compile_ptx the operations are what the passes so far  *)
(* make of a module as push_op and lift_ptx build it, and the kernel has   *)
(* one function per operation, in order, named after the last.             *)
THEOREM PipelineInvariant == PipelineSpec => []PipelineInv
  <1>1. PipelineInit => PipelineInv
    BY EmptySource DEF PipelineInit, Init, PipelineInv, SourceInv, StageInv, KernelInv
  <1>2. PipelineInv /\ [PipelineNext]_pipelineVars => PipelineInv'
    <2> SUFFICES ASSUME PipelineInv, [PipelineNext]_pipelineVars PROVE PipelineInv'
      OBVIOUS
    <2>1. CASE push_op /\ UNCHANGED kernel
      BY <2>1, PushStep
    <2>2. CASE lift_ptx
      BY <2>2, LiftStep
    <2>3. CASE Pass /\ UNCHANGED kernel
      BY <2>3, PassStep
    <2>4. CASE generate
      BY <2>4, GenerateStepInv
    <2>5. CASE Finish
      BY <2>5, EmptySource DEF Finish, PipelineInv, SourceInv, StageInv, KernelInv
    <2>6. CASE UNCHANGED pipelineVars
      BY <2>6 DEF pipelineVars, PipelineInv, SourceInv, StageInv, KernelInv, KernelOf, Spirv
    <2> QED BY <2>1, <2>2, <2>3, <2>4, <2>5, <2>6 DEF PipelineNext
  <1> QED BY <1>1, <1>2, PTL DEF PipelineSpec

-----------------------------------------------------------------------------
(* The properties.                                                         *)

LEMMA OverwrittenIsReread ==
    ASSUME NEW i
    PROVE  Overwritten(i) <=> Reread(source, i)
  BY DEF Overwritten, Reread

LEMMA NonEmptySource ==
    ASSUME NEW S, IsSource(S), S # <<>>
    PROVE  /\ Len(S) \in Nat /\ Len(S) > 0 /\ Len(S) \in DOMAIN S /\ DOMAIN S = 1..Len(S)
           /\ S[Len(S)].output = Len(S) - 1
  <1> DEFINE m == Len(S)
  <1>1. IsSequence(S) /\ \A i \in DOMAIN S : S[i].output = i - 1
    BY DEF IsSource, IsPlain
  <1>2. m \in Nat /\ DOMAIN S = 1..m /\ S = [i \in 1..m |-> S[i]]
    BY <1>1, SequenceFacts
  <1>3. m = 0 => S = <<>>
    BY <1>2
  <1>4. m > 0 /\ m \in DOMAIN S
    BY <1>2, <1>3
  <1> QED BY <1>1, <1>2, <1>4

(* Constant folding never changes what a value stands for: whatever chain  *)
(* of additions and multiplications run_constant_folding collapses, every  *)
(* value of the module means what it meant before, for modules of any      *)
(* length.                                                                 *)
THEOREM Folding == PipelineSpec => []FoldingSound
  <1>1. PipelineInv => FoldingSound
    <2> SUFFICES ASSUME PipelineInv, stage = "folded" PROVE Meaning(ops) = Meaning(source)
      BY DEF FoldingSound
    <2>1. IsSource(source) /\ ops = Folded(source)
      BY DEF PipelineInv, SourceInv, StageInv
    <2> QED BY <2>1, FoldedMeaning
  <1> QED BY <1>1, PipelineInvariant, PTL

(* Operator fusion keeps the meaning of every value it does not absorb     *)
(* exactly when no product that run_operator_fusion absorbs is read again. *)
THEOREM Fusion == PipelineSpec => []FusionSound
  <1>1. PipelineInv => FusionSound
    <2> SUFFICES ASSUME PipelineInv, stage = "fused"
                 PROVE  (\A v \in Outputs(ops) : Meaning(ops)[v] = Meaning(source)[v])
                           <=> ~ \E i \in 1..(Len(source) - 1) : Overwritten(i)
      BY DEF FusionSound
    <2>1. IsSource(source) /\ ops = AfterFusion(source)
      BY DEF PipelineInv, SourceInv, StageInv
    <2>2. (\A v \in Outputs(ops) : Meaning(ops)[v] = Meaning(source)[v])
             <=> ~ \E i \in 1..(Len(source) - 1) : Reread(source, i)
      BY <2>1, AfterFusionFacts
    <2> QED BY <2>2, OverwrittenIsReread
  <1> QED BY <1>1, PipelineInvariant, PTL

(* Dead code elimination keeps exactly what the root reaches: run_dce      *)
(* finds it in one sweep from the last operation to the first.             *)
THEOREM DeadCode == PipelineSpec => DceExact
  <1>1. PipelineInv => [run_dce => IsSubsequence(ops', ops, Needed(ops))]_vars
    <2> SUFFICES ASSUME PipelineInv, run_dce PROVE IsSubsequence(ops', ops, Needed(ops))
      OBVIOUS
    <2>1. IsSource(source) /\ ops = AfterTiling(source, backend) /\ ops' = Pruned(ops)
      BY DEF run_dce, PipelineInv, SourceInv, StageInv
    <2> DEFINE U == AfterFusion(source)
    <2>2. U = AfterFusion(source)
      OBVIOUS
    <2> HIDE DEF U
    <2>3. Ascending(ops)
      BY <2>1, <2>2, AfterTilingFacts
    <2> QED BY <2>1, <2>3, PrunedFacts
  <1> QED BY <1>1, PipelineInvariant, PTL DEF DceExact

(* When nothing was fused, the passes keep the final output of the module  *)
(* and what it means, whatever the module and the backend.                 *)
THEOREM Unfused == PipelineSpec => []UnfusedPreserved
  <1>1. PipelineInv => UnfusedPreserved
    <2> SUFFICES ASSUME PipelineInv, stage = "done", source # <<>>,
                        \A i \in 1..(Len(source) - 1) : ~Fusable(source[i], source[i + 1])
                 PROVE  /\ FinalOutput \in Outputs(ops)
                        /\ Meaning(ops)[FinalOutput] = Meaning(source)[FinalOutput]
      BY DEF UnfusedPreserved
    <2>1. IsSource(source) /\ ops = AfterPasses(source, backend)
      BY DEF PipelineInv, SourceInv, StageInv
    <2>2. FinalOutput \in Outputs(ops)
      BY <2>1, UnfusedRoot DEF FinalOutput
    <2>3. \A i \in 1..(Len(source) - 1) : ~Reread(source, i)
      BY DEF Reread
    <2>4. \A v \in Outputs(ops) : Meaning(ops)[v] = Meaning(source)[v]
      BY <2>1, <2>3, AfterPassesFacts
    <2> QED BY <2>2, <2>4
  <1> QED BY <1>1, PipelineInvariant, PTL

(* The payload computes what the module meant: from the operations pushed  *)
(* to the functions generate emits, run in order.                          *)
THEOREM EndToEndTheorem == PipelineSpec => []EndToEnd
  <1>1. PipelineInv => EndToEnd
    <2> SUFFICES ASSUME PipelineInv, Generated, source # <<>>, FinalOutput \in Outputs(ops),
                        ~ \E i \in 1..(Len(source) - 1) : Overwritten(i),
                        \A i \in DOMAIN ops : ops[i].fused # "Add" /\ ops[i].kind # "Opaque"
                 PROVE  Computed[FinalOutput] = Meaning(source)[FinalOutput]
      BY DEF EndToEnd
    <2>1. IsSource(source) /\ ops = AfterPasses(source, backend) /\ KernelOf(kernel, ops) /\ kernel.ok
      BY DEF Generated, PipelineInv, SourceInv, StageInv, KernelInv
    <2>2. \A i \in 1..(Len(source) - 1) : ~Reread(source, i)
      BY OverwrittenIsReread
    <2>3. Ascending(ops) /\ TwoFactors(ops) /\ \A v \in Outputs(ops) : Meaning(ops)[v] = Meaning(source)[v]
      BY <2>1, <2>2, AfterPassesFacts
    <2>4. DOMAIN ops = 1..Len(ops)
      BY <2>3, SequenceFacts DEF Ascending
    <2> DEFINE functions == kernel.functions
    <2>5. Len(functions) = Len(ops)
          /\ \A k \in DOMAIN ops : functions[k].op = ops[k] /\ ops[k].kind \in Supported
      BY <2>1, <2>4 DEF KernelOf
    <2>6. \A k \in DOMAIN ops : ops[k].kind \in {"MatMul", "Relu", "Add"} /\ ops[k].fused # "Add"
      BY <2>5 DEF Supported
    <2> HIDE DEF functions
    <2>7. Runs(functions)[Len(functions)] = Meaning(ops)
      BY <2>3, <2>5, <2>6, RunsMeaning
    <2>8. Computed = Meaning(ops)
      BY <2>7 DEF Computed, functions
    <2> QED BY <2>3, <2>8
  <1> QED BY <1>1, PipelineInvariant, PTL

\* Kernel names of different operations differ.
LEMMA KernelNames ==
    ASSUME NEW a, NEW b, kernel_name(a) = kernel_name(b)
    PROVE  a.id = b.id
  <1> DEFINE x == KernelPrefix(a.kind)
             y == KernelPrefix(b.kind)
  <1>1. <<x, a.id>> = <<y, b.id>>
    BY DEF kernel_name
  <1> HIDE DEF x, y
  <1> QED BY <1>1

(* The kernel is named after the function of the final output, and no      *)
(* other function has that entry point: what the launch looks up by name   *)
(* is what the module was built for.                                       *)
THEOREM NamedKernel == PipelineSpec => []NamedKernelIsFinal
  <1>1. PipelineInv => NamedKernelIsFinal
    <2> SUFFICES ASSUME PipelineInv, Generated, source # <<>>, FinalOutput \in Outputs(ops), ~Spirv
                 PROVE  \E k \in DOMAIN kernel.functions :
                           /\ kernel.functions[k].op.output = FinalOutput
                           /\ \A m \in DOMAIN kernel.functions :
                                 kernel.functions[m].entry = kernel.name <=> m = k
      BY DEF NamedKernelIsFinal
    <2>1. IsSource(source) /\ ops = AfterPasses(source, backend) /\ KernelOf(kernel, ops) /\ kernel.ok
      BY DEF Generated, PipelineInv, SourceInv, StageInv, KernelInv
    <2>2. Ascending(ops) /\ \A v \in Outputs(ops) : v \in Nat /\ v < Len(source)
      BY <2>1, AfterPassesFacts
    <2>3. Len(source) \in Nat /\ FinalOutput = Len(source) - 1
      BY <2>1, NonEmptySource DEF FinalOutput
    <2>4. Len(ops) \in Nat /\ DOMAIN ops = 1..Len(ops)
      BY <2>2, SequenceFacts DEF Ascending
    <2>5. PICK j \in DOMAIN ops : ops[j].output = FinalOutput
      BY DEF Outputs
    <2> DEFINE k == Len(ops)
    <2>6. k \in DOMAIN ops /\ k # 0
      BY <2>4, <2>5
    <2>7. ops[k].output = FinalOutput
      <3>1. ops[k].output \in Outputs(ops)
        BY <2>6 DEF Outputs
      <3>2. ops[k].output \in Nat /\ ops[k].output < Len(source)
        BY <2>2, <3>1
      <3>3. j < k => ops[j].output < ops[k].output
        BY <2>2, <2>6 DEF Ascending
      <3>4. j < k \/ j = k
        BY <2>4
      <3> QED BY <2>3, <2>5, <3>2, <3>3, <3>4
    <2> DEFINE f == kernel.functions
    <2>8. /\ IsSequence(f) /\ Len(f) = k
          /\ \A i \in 1..k : f[i].op = ops[i] /\ f[i].entry = kernel_name(ops[i])
          /\ kernel.name = kernel_name(ops[k])
      BY <2>1, <2>6 DEF KernelOf
    <2>9. \A m \in DOMAIN ops : m # k => ops[m].id # ops[k].id
      <3> TAKE m \in DOMAIN ops
      <3> HAVE m # k
      <3>1. m < k
        BY <2>4
      <3>2. ops[m].id < ops[k].id /\ ops[m].id \in Int /\ ops[k].id \in Int
        BY <2>2, <2>6, <3>1 DEF Ascending, WellFormed
      <3> QED BY <3>2
    <2> HIDE DEF f, k
    <2>10. DOMAIN f = 1..k /\ DOMAIN ops = 1..k
      BY <2>4, <2>8, SequenceFacts DEF k
    <2>11. \A m \in DOMAIN f : f[m].entry = kernel.name <=> m = k
      BY <2>8, <2>9, <2>10, KernelNames
    <2>12. k \in DOMAIN f /\ f[k].op.output = FinalOutput
      BY <2>6, <2>7, <2>8, <2>10
    <2> QED BY <2>11, <2>12 DEF f
  <1> QED BY <1>1, PipelineInvariant, PTL
=============================================================================
