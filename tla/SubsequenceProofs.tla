------------------------- MODULE SubsequenceProofs -------------------------
(***************************************************************************)
(* Induction over the turns of a loop, and what the loop of Subsequences   *)
(* computes.  Induction is stated for sets of numbers instead of           *)
(* predicates: a set that is not all of 0..m has a least number outside.   *)
(***************************************************************************)
EXTENDS Subsequences, SequenceTheorems, WellFoundedInduction, TLAPS

-----------------------------------------------------------------------------
\* Every set of natural numbers that is not empty has a least element.
LEMMA LeastNumber ==
    ASSUME NEW T \in SUBSET Nat, T # {}
    PROVE  \E m \in T : \A k \in T : m <= k
  <1>1. PICK x \in T : \A y \in T : ~ (<<y, x>> \in OpToRel(<, Nat))
    BY WFMin, NatLessThanWellFounded
  <1>2. \A y \in T : ~ (y < x)
    BY <1>1 DEF OpToRel
  <1> QED BY <1>2

\* A set that contains 0, and with a number the next one, contains all.
LEMMA Induction ==
    ASSUME NEW S, NEW m \in Nat, 0 \in S,
           \A n \in Nat : n < m /\ n \in S => n + 1 \in S
    PROVE  \A n \in 0..m : n \in S
  <1> DEFINE T == {n \in Nat : n <= m /\ n \notin S}
  <1> SUFFICES ASSUME T # {} PROVE FALSE
    OBVIOUS
  <1>1. PICK x \in T : \A k \in T : x <= k
    BY LeastNumber
  <1>2. x # 0 /\ x - 1 \in Nat /\ x - 1 < m
    BY <1>1
  <1>3. x - 1 \in S
    BY <1>1, <1>2
  <1> QED BY <1>1, <1>2, <1>3

\* A set that contains a number whenever it contains those before it.
LEMMA StrongInduction ==
    ASSUME NEW S, NEW m \in Nat,
           \A n \in 1..m : (\A k \in 1..(n - 1) : k \in S) => n \in S
    PROVE  \A n \in 1..m : n \in S
  <1> DEFINE T == {n \in Nat : 1 <= n /\ n <= m /\ n \notin S}
  <1> SUFFICES ASSUME T # {} PROVE FALSE
    OBVIOUS
  <1>1. PICK x \in T : \A k \in T : x <= k
    BY LeastNumber
  <1>2. \A k \in 1..(x - 1) : k \in S
    BY <1>1
  <1> QED BY <1>1, <1>2

-----------------------------------------------------------------------------
\* A sequence, of whatever elements.
IsSequence(s) == \E S : s \in Seq(S)

LEMMA EmptyIsSequence == IsSequence(<<>>)
  <1>1. <<>> \in Seq({})
    OBVIOUS
  <1> QED BY <1>1 DEF IsSequence

LEMMA SequenceFacts ==
    ASSUME NEW s, IsSequence(s)
    PROVE  /\ Len(s) \in Nat /\ DOMAIN s = 1..Len(s)
           /\ s = [i \in 1..Len(s) |-> s[i]]
  BY LenProperties DEF IsSequence

LEMMA FunctionIsSequence ==
    ASSUME NEW n \in Nat, NEW f, DOMAIN f = 1..n, f = [i \in 1..n |-> f[i]]
    PROVE  IsSequence(f) /\ Len(f) = n
  <1> DEFINE S == {f[i] : i \in 1..n}
  <1>1. f \in [1..n -> S]
    OBVIOUS
  <1>2. f \in Seq(S)
    BY <1>1
  <1>3. Len(f) = n
    BY <1>2
  <1> QED BY <1>2, <1>3 DEF IsSequence

\* Appending.
LEMMA AppendSequence ==
    ASSUME NEW s, NEW x, IsSequence(s)
    PROVE  /\ IsSequence(Append(s, x))
           /\ DOMAIN Append(s, x) = DOMAIN s \cup {Len(s) + 1}
           /\ Len(Append(s, x)) = Len(s) + 1
           /\ Len(s) + 1 \notin DOMAIN s
           /\ \A i \in DOMAIN s : Append(s, x)[i] = s[i]
           /\ Append(s, x)[Len(s) + 1] = x
  <1>1. PICK S : s \in Seq(S)
    BY DEF IsSequence
  <1>2. s \in Seq(S \cup {x})
    BY <1>1
  <1>3. Append(s, x) \in Seq(S \cup {x})
    BY <1>2
  <1>4. /\ DOMAIN Append(s, x) = DOMAIN s \cup {Len(s) + 1}
        /\ Len(Append(s, x)) = Len(s) + 1
        /\ Len(s) + 1 \notin DOMAIN s
        /\ \A i \in DOMAIN s : Append(s, x)[i] = s[i]
        /\ Append(s, x)[Len(s) + 1] = x
    BY <1>2, AppendProperties, LenProperties
  <1> QED BY <1>3, <1>4 DEF IsSequence

-----------------------------------------------------------------------------
(* The loop.                                                               *)

PickEq(f, s, K, m) ==
    f = [n \in 0..m |-> IF n = 0 THEN <<>>
                        ELSE IF n \in K THEN Append(f[n - 1], s[n])
                        ELSE f[n - 1]]

\* The recursion has a solution.
LEMMA PickExists ==
    ASSUME NEW s, NEW K, NEW m \in Nat
    PROVE  \E f : PickEq(f, s, K, m)
  <1> DEFINE G == {n \in Nat : \E f : PickEq(f, s, K, n)}
  <1>1. 0 \in G
    <2> DEFINE f == [n \in 0..0 |-> <<>>]
    <2>1. \A n \in 0..0 : f[n] = IF n = 0 THEN <<>>
                                 ELSE IF n \in K THEN Append(f[n - 1], s[n]) ELSE f[n - 1]
      OBVIOUS
    <2>2. PickEq(f, s, K, 0)
      BY <2>1 DEF PickEq
    <2> HIDE DEF f
    <2> QED BY <2>2
  <1>2. ASSUME NEW n \in Nat, n \in G PROVE n + 1 \in G
    <2>1. PICK f : PickEq(f, s, K, n)
      BY <1>2
    <2> DEFINE x == IF n + 1 \in K THEN Append(f[n], s[n + 1]) ELSE f[n]
               g == [i \in 0..(n + 1) |-> IF i = n + 1 THEN x ELSE f[i]]
    <2> HIDE DEF x
    <2>2. \A i \in 0..n : f[i] = IF i = 0 THEN <<>>
                                 ELSE IF i \in K THEN Append(f[i - 1], s[i]) ELSE f[i - 1]
      BY <2>1 DEF PickEq
    <2>3. \A i \in 0..n : g[i] = f[i]
      OBVIOUS
    <2>4. g[n + 1] = x
      OBVIOUS
    <2>5. DOMAIN g = 0..(n + 1) /\ g = [i \in 0..(n + 1) |-> g[i]]
      OBVIOUS
    <2> HIDE DEF g
    <2>6. ASSUME NEW i \in 0..(n + 1)
          PROVE  g[i] = IF i = 0 THEN <<>>
                        ELSE IF i \in K THEN Append(g[i - 1], s[i]) ELSE g[i - 1]
      <3>1. CASE i = n + 1
        <4>1. i - 1 = n /\ g[i - 1] = f[n] /\ i # 0
          BY <3>1, <2>3
        <4> QED BY <4>1, <3>1, <2>4 DEF x
      <3>2. CASE i # n + 1
        <4>1. i \in 0..n /\ g[i] = f[i]
          BY <3>2, <2>3
        <4>2. i # 0 => g[i - 1] = f[i - 1]
          BY <4>1, <2>3
        <4> QED BY <4>1, <4>2, <2>2
      <3> QED BY <3>1, <3>2
    <2>7. PickEq(g, s, K, n + 1)
      BY <2>5, <2>6 DEF PickEq
    <2> QED BY <2>7
  <1>3. \A n \in Nat : n < m /\ n \in G => n + 1 \in G
    BY <1>2
  <1> HIDE DEF G
  <1>4. m \in 0..m /\ \A n \in 0..m : n \in G
    BY <1>1, <1>3, Induction
  <1> QED BY <1>4 DEF G

LEMMA PickToDef ==
    ASSUME NEW s, NEW K, Len(s) \in Nat
    PROVE  /\ PickTo(s, K)[0] = <<>>
           /\ \A n \in 1..Len(s) :
                 PickTo(s, K)[n] = IF n \in K THEN Append(PickTo(s, K)[n - 1], s[n])
                                   ELSE PickTo(s, K)[n - 1]
  <1> DEFINE f == PickTo(s, K)
  <1>1. f = CHOOSE g : PickEq(g, s, K, Len(s))
    BY DEF PickTo, PickEq
  <1>2. PickEq(f, s, K, Len(s))
    BY <1>1, PickExists
  <1> HIDE DEF f
  <1>3. \A n \in 0..Len(s) : f[n] = IF n = 0 THEN <<>>
                                    ELSE IF n \in K THEN Append(f[n - 1], s[n]) ELSE f[n - 1]
    BY <1>2 DEF PickEq
  <1> QED BY <1>3 DEF f

\* One turn of the loop, of which t was the result so far.
LEMMA PickStep ==
    ASSUME NEW s, NEW n \in Nat, NEW K \in SUBSET Nat, NEW t, NEW u,
           IsSequence(t), IsSubsequence(t, s, K \cap 1..n),
           u = IF n + 1 \in K THEN Append(t, s[n + 1]) ELSE t
    PROVE  IsSequence(u) /\ IsSubsequence(u, s, K \cap 1..(n + 1))
  <1>1. CASE n + 1 \in K
    <2>1. PICK at \in [DOMAIN t -> K \cap 1..n] :
             /\ \A k \in DOMAIN t : t[k] = s[at[k]]
             /\ \A k, m \in DOMAIN t : k < m => at[k] < at[m]
             /\ \A i \in K \cap 1..n : \E k \in DOMAIN t : at[k] = i
      BY DEF IsSubsequence
    <2> DEFINE l == Len(t) + 1
               bt == [k \in DOMAIN u |-> IF k = l THEN n + 1 ELSE at[k]]
    <2>2. /\ IsSequence(u) /\ DOMAIN u = DOMAIN t \cup {l} /\ l \notin DOMAIN t
          /\ \A i \in DOMAIN t : u[i] = t[i]
          /\ u[l] = s[n + 1]
      BY <1>1, AppendSequence
    <2>3. DOMAIN t = 1..Len(t) /\ Len(t) \in Nat
      BY SequenceFacts
    <2>4. l \in Nat /\ \A k \in DOMAIN t : k \in Nat /\ k < l
      BY <2>3
    <2>5. K \cap 1..(n + 1) = (K \cap 1..n) \cup {n + 1}
      BY <1>1
    <2> HIDE DEF l
    <2>6. bt \in [DOMAIN u -> K \cap 1..(n + 1)]
      BY <2>2, <2>5
    <2>7. \A k \in DOMAIN t : bt[k] = at[k] /\ at[k] \in 1..n
      BY <2>1, <2>2
    <2>8. bt[l] = n + 1
      BY <2>2
    <2> HIDE DEF bt
    <2>9. \A k \in DOMAIN u : u[k] = s[bt[k]]
      BY <2>1, <2>2, <2>7, <2>8
    <2>10. \A k, m \in DOMAIN u : k < m => bt[k] < bt[m]
      <3> SUFFICES ASSUME NEW k \in DOMAIN u, NEW m \in DOMAIN u, k < m PROVE bt[k] < bt[m]
        OBVIOUS
      <3>1. CASE m = l
        <4>1. k \in DOMAIN t
          BY <3>1, <2>4, <2>2
        <4> QED BY <4>1, <3>1, <2>7, <2>8
      <3>2. CASE m # l
        <4>1. m \in DOMAIN t /\ m < l /\ m \in Nat
          BY <3>2, <2>2, <2>4
        <4>2. k # l
          BY <4>1, <2>4
        <4> QED BY <4>1, <4>2, <2>1, <2>2, <2>7
      <3> QED BY <3>1, <3>2
    <2>11. \A i \in K \cap 1..(n + 1) : \E k \in DOMAIN u : bt[k] = i
      BY <2>1, <2>2, <2>5, <2>7, <2>8
    <2> QED BY <2>2, <2>6, <2>9, <2>10, <2>11 DEF IsSubsequence
  <1>2. CASE n + 1 \notin K
    <2>1. K \cap 1..(n + 1) = K \cap 1..n
      BY <1>2
    <2> QED BY <1>2, <2>1
  <1> QED BY <1>1, <1>2

\* The loop pushes the elements it was to push, in their order.
LEMMA PickIsSubsequence ==
    ASSUME NEW s, Len(s) \in Nat, NEW K \in SUBSET (1..Len(s))
    PROVE  IsSequence(Pick(s, K)) /\ IsSubsequence(Pick(s, K), s, K)
  <1> DEFINE f == PickTo(s, K)
             G == {n \in Nat : IsSequence(f[n]) /\ IsSubsequence(f[n], s, K \cap 1..n)}
  <1>0. /\ f[0] = <<>>
        /\ \A n \in 1..Len(s) : f[n] = IF n \in K THEN Append(f[n - 1], s[n]) ELSE f[n - 1]
    BY PickToDef
  <1> HIDE DEF f
  <1>1. 0 \in G
    <2>1. f[0] = <<>> /\ DOMAIN <<>> = {} /\ K \cap 1..0 = {}
      BY <1>0
    <2>2. [k \in {} |-> 0] \in [{} -> {}]
      OBVIOUS
    <2>3. IsSubsequence(<<>>, s, {})
      BY <2>1, <2>2 DEF IsSubsequence
    <2> QED BY <2>1, <2>3, EmptyIsSequence
  <1>2. ASSUME NEW n \in Nat, n < Len(s), n \in G PROVE n + 1 \in G
    <2>1. n + 1 \in 1..Len(s) /\ (n + 1) - 1 = n
      BY <1>2
    <2>2. f[n + 1] = IF n + 1 \in K THEN Append(f[n], s[n + 1]) ELSE f[n]
      BY <1>0, <2>1
    <2>3. K \in SUBSET Nat /\ IsSequence(f[n]) /\ IsSubsequence(f[n], s, K \cap 1..n)
      BY <1>2
    <2>4. IsSequence(f[n + 1]) /\ IsSubsequence(f[n + 1], s, K \cap 1..(n + 1))
      BY <2>2, <2>3, PickStep
    <2> QED BY <2>4
  <1> HIDE DEF G
  <1>3. \A n \in Nat : n < Len(s) /\ n \in G => n + 1 \in G
    BY <1>2
  <1>5. Len(s) \in 0..Len(s) /\ \A n \in 0..Len(s) : n \in G
    BY <1>1, <1>3, Induction
  <1>4. K \cap 1..Len(s) = K
    OBVIOUS
  <1> QED BY <1>5, <1>4 DEF Pick, f, G

\* A loop that pushes every element pushes as many.
LEMMA PickAll ==
    ASSUME NEW s, Len(s) \in Nat, NEW K, \A n \in 1..Len(s) : n \in K
    PROVE  Len(Pick(s, K)) = Len(s)
  <1> DEFINE m == Len(s)
             f == PickTo(s, K)
             G == {n \in Nat : IsSequence(f[n]) /\ Len(f[n]) = n}
  <1>1. /\ f[0] = <<>>
        /\ \A n \in 1..m : f[n] = IF n \in K THEN Append(f[n - 1], s[n]) ELSE f[n - 1]
    BY PickToDef
  <1>2. m \in Nat /\ \A n \in 1..m : n \in K
    OBVIOUS
  <1> HIDE DEF f, m
  <1>3. 0 \in G
    BY <1>1, EmptyIsSequence
  <1>4. ASSUME NEW n \in Nat, n < m, n \in G PROVE n + 1 \in G
    <2>1. n + 1 \in 1..m /\ (n + 1) - 1 = n
      BY <1>2, <1>4
    <2>2. f[n + 1] = Append(f[n], s[n + 1])
      BY <1>1, <1>2, <2>1
    <2>3. IsSequence(f[n]) /\ Len(f[n]) = n
      BY <1>4
    <2>4. IsSequence(f[n + 1]) /\ Len(f[n + 1]) = n + 1
      BY <2>2, <2>3, AppendSequence
    <2> QED BY <2>4
  <1>5. \A n \in Nat : n < m /\ n \in G => n + 1 \in G
    BY <1>4
  <1> HIDE DEF G
  <1>6. m \in 0..m /\ \A n \in 0..m : n \in G
    BY <1>2, <1>3, <1>5, Induction
  <1>7. Len(f[m]) = m
    BY <1>6 DEF G
  <1> QED BY <1>7 DEF Pick, f, m
=============================================================================
