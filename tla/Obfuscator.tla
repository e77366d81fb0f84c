----------------------------- MODULE Obfuscator -----------------------------
(***************************************************************************)
(* ObfuscationMatrix of omni-net/src/crypto/obfuscator.rs.  generate draws *)
(* matrices until one can be inverted by Gauss-Jordan elimination with     *)
(* partial pivoting; obfuscate multiplies a tensor by the matrix, restore  *)
(* by its inverse.                                                         *)
(*                                                                         *)
(* A number is an exact fraction <<n, d>> in lowest terms with d > 0.  The *)
(* code computes with f32, so that a pivot whose exact value is zero may   *)
(* be seen as a small number instead, once any number of the elimination   *)
(* has been rounded: rounded says whether one was.  Other effects of       *)
(* rounding are left out.                                                  *)
(***************************************************************************)
EXTENDS Integers, Sequences, SequencesExt, FiniteSets, FiniteSetsExt

CONSTANTS
    dim,            \* dimension of the matrix
    Draws,          \* the integer matrices the random generator can return
    Tensors,        \* the tensors callers hide, flat sequences of integers
    MaxRows         \* bound: row counts callers pass

ASSUME ObfuscatorBounds == dim \in Nat \ {0} /\ MaxRows \in Nat

VARIABLES
    data,           \* the matrix
    aug,            \* [A | I], in the course of the elimination
    column,         \* the column it comes to next
    rounded,        \* the elimination has rounded a number
    inverse,        \* the inverse, when it is known
    stage,          \* "draw", "eliminate", "retry", "ready"
    plain,          \* the tensor hidden last
    sent,           \* its obfuscated form, <<>> when there is none
    restored        \* what restore returned, or Error

vars == <<data, aug, column, rounded, inverse, stage, plain, sent, restored>>

Index == 1..dim
Error == <<"Err">>
NoMatrix == <<>>
Garbage == <<"garbage">>    \* an array of numbers that inverts nothing

-----------------------------------------------------------------------------
\* Arithmetic on fractions.
GCD[m \in Nat, n \in Nat] == IF n = 0 THEN m ELSE GCD[n, m % n]
Magnitude(n) == IF n < 0 THEN -n ELSE n

Fraction[n \in Int, d \in Int] ==
    LET g == GCD[Magnitude(n), Magnitude(d)]
    IN  IF d < 0 THEN <<-n \div g, -d \div g>> ELSE <<n \div g, d \div g>>

Zero == <<0, 1>>
One == <<1, 1>>
Plus[x, y \in Int \X Int] == Fraction[x[1] * y[2] + y[1] * x[2], x[2] * y[2]]
Minus[x, y \in Int \X Int] == Fraction[x[1] * y[2] - y[1] * x[2], x[2] * y[2]]
Times[x, y \in Int \X Int] == Fraction[x[1] * y[1], x[2] * y[2]]
Over[x, y \in Int \X Int] == Fraction[x[1] * y[2], x[2] * y[1]]
Larger(x, y) == Magnitude(x[1]) * y[2] > Magnitude(y[1]) * x[2]

\* The fractions a binary floating point number can be.
Dyadic(x) == x[2] \in {2^k : k \in 0..20}

Dot(f, g) == FoldLeft(LAMBDA x, y : Plus[x, y], Zero, [k \in Index |-> Times[f[k], g[k]]])
Column(m, c) == [k \in Index |-> m[k][c]]
Product(m, n) == [r \in Index |-> [c \in Index |-> Dot(m[r], Column(n, c))]]
Identity == [r \in Index |-> [c \in Index |-> IF r = c THEN One ELSE Zero]]

-----------------------------------------------------------------------------
Init ==
    /\ data = NoMatrix /\ aug = NoMatrix /\ column = 1 /\ rounded = FALSE
    /\ inverse = NoMatrix
    /\ stage = "draw"
    /\ plain = <<>> /\ sent = <<>> /\ restored = <<>>

\* The random part is an integer between -5 and 5; 15 is added on the diagonal.
Offset(d) == [r \in Index |-> [c \in Index |-> <<d[r][c] + (IF r = c THEN 15 ELSE 0), 1>>]]

\* generate: a new matrix is drawn, and invert begins with [A | I].
Draw(d) ==
    /\ stage = "draw"
    /\ data' = Offset(d)
    /\ aug' = [r \in Index |-> Offset(d)[r] \o Identity[r]]
    /\ column' = 1 /\ rounded' = FALSE
    /\ stage' = "eliminate"
    /\ UNCHANGED <<inverse, plain, sent, restored>>

\* The first of the rows from i on whose entry in column i is largest.
PivotRow(i) ==
    FoldLeft(LAMBDA best, r : IF Larger(aug[r][i], aug[best][i]) THEN r ELSE best,
             i, [k \in 1..(dim - i) |-> i + k])

\* mutant of Swap: the row is copied, not exchanged
SwapCopies(m, i, p) == [m EXCEPT ![i] = m[p]]

Swap(m, i, p) == [m EXCEPT ![i] = m[p], ![p] = m[i]]

Scale(m, i) == [m EXCEPT ![i] = [c \in 1..(2 * dim) |-> Over[m[i][c], m[i][i]]]]

Eliminate(m, i) ==
    [r \in Index |->
        IF r = i THEN m[i]
        ELSE [c \in 1..(2 * dim) |-> Minus[m[r][c], Times[m[r][i], m[i][c]]]]]

\* The pivot is below 1e-6 in magnitude: no inverse.
Singular(i) == aug[PivotRow(i)][i] = Zero

\* One turn of the elimination loop: swap, scale, eliminate.
EliminateColumn ==
    /\ stage = "eliminate" /\ column <= dim
    /\ ~Singular(column)
    /\ aug' = Eliminate(Scale(Swap(aug, column, PivotRow(column)), column), column)
    /\ rounded' = (rounded \/ \E r \in Index, c \in 1..(2 * dim) : ~Dyadic(aug'[r][c]))
    /\ column' = column + 1
    /\ UNCHANGED <<data, inverse, stage, plain, sent, restored>>

\* invert returns None...
InvertFails ==
    /\ stage = "eliminate" /\ column <= dim
    /\ Singular(column)
    /\ stage' = "retry"
    /\ aug' = NoMatrix /\ column' = 1 /\ rounded' = FALSE
    /\ UNCHANGED <<data, inverse, plain, sent, restored>>

\* mutant of Retry: the matrix is drawn before the loop
RetrySame ==
    /\ stage = "retry"
    /\ aug' = [r \in Index |-> data[r] \o Identity[r]]
    /\ stage' = "eliminate"
    /\ UNCHANGED <<data, column, rounded, inverse, plain, sent, restored>>

\* ...and generate begins its loop anew.
Retry ==
    /\ stage = "retry"
    /\ data' = NoMatrix
    /\ stage' = "draw"
    /\ UNCHANGED <<aug, column, rounded, inverse, plain, sent, restored>>

\* The zero is hidden by a rounding error above 1e-6: the elimination goes on
\* with it and generate returns what comes out.
RoundingHidesZero ==
    /\ stage = "eliminate" /\ column <= dim
    /\ Singular(column) /\ rounded
    /\ inverse' = Garbage
    /\ stage' = "ready"
    /\ aug' = NoMatrix /\ column' = 1 /\ rounded' = FALSE
    /\ UNCHANGED <<data, plain, sent, restored>>

\* [I | A^-1]: the right half is the inverse, and generate returns.
Extract ==
    /\ stage = "eliminate" /\ column = dim + 1
    /\ inverse' = [r \in Index |-> SubSeq(aug[r], dim + 1, 2 * dim)]
    /\ stage' = "ready"
    /\ aug' = NoMatrix /\ column' = 1 /\ rounded' = FALSE
    /\ UNCHANGED <<data, plain, sent, restored>>

-----------------------------------------------------------------------------
\* mutant of Fits: a tensor that is too long is accepted
FitsWithin(tensor, rows) == Len(tensor) >= rows * dim

\* The shape check of obfuscate and of restore.
Fits(tensor, rows) == Len(tensor) = rows * dim

\* X * M for a flat row-major X.
Multiply(tensor, rows, m) ==
    [k \in 1..(rows * dim) |->
        LET r == (k - 1) \div dim
        IN  Dot(SubSeq(tensor, r * dim + 1, (r + 1) * dim), Column(m, ((k - 1) % dim) + 1))]

obfuscate(tensor, rows) ==
    /\ stage = "ready" /\ sent = <<>>
    /\ plain' = [k \in DOMAIN tensor |-> <<tensor[k], 1>>]
    /\ sent' = IF Fits(tensor, rows) THEN Multiply(plain', rows, data) ELSE Error
    /\ UNCHANGED <<data, aug, column, rounded, inverse, stage, restored>>

\* restore of what obfuscate returned, with any number of rows.
restore(rows) ==
    /\ sent \notin {<<>>, Error} /\ restored = <<>>
    /\ restored' = IF ~Fits(sent, rows) THEN Error
                   ELSE IF inverse = Garbage THEN Garbage
                   ELSE Multiply(sent, rows, inverse)
    /\ UNCHANGED <<data, aug, column, rounded, inverse, stage, plain, sent>>

Invert == EliminateColumn \/ InvertFails \/ Retry \/ RoundingHidesZero \/ Extract

Next ==
    \/ \E d \in Draws : Draw(d)
    \/ Invert
    \/ \E tensor \in Tensors, rows \in 0..MaxRows : obfuscate(tensor, rows)
    \/ \E rows \in 0..MaxRows : restore(rows)

Spec == Init /\ [][Next]_vars

-----------------------------------------------------------------------------
\* The determinant of a matrix of integers (fractions over 1), by expansion
\* along its last row: Minor[S] is that of the first |S| rows and columns S.
Det(m) ==
    LET Sign(c, S) == IF Cardinality({k \in S : k > c}) % 2 = 0 THEN 1 ELSE -1
        Minor[S \in SUBSET Index] ==
            IF S = {} THEN 1
            ELSE MapThenSumSet(
                   LAMBDA c : Sign(c, S) * m[Cardinality(S)][c][1] * Minor[S \ {c}], S)
    IN  Minor[Index]

RegularDraw == (\E d \in Draws : Draw(d)) /\ Det(data') # 0

\* generate runs until it returns, and the generator, being random, draws an
\* invertible matrix sooner or later.
FairSpec == Spec /\ WF_vars(Invert) /\ SF_vars(RegularDraw)

(* The elimination computes the inverse: throughout, the right half of aug *)
(* times the matrix is the left half, whose finished columns are those of  *)
(* the identity; what is rejected has no inverse, and an invertible matrix *)
(* gets its inverse, however its rows had to be exchanged.                 *)
InvertExact ==
    LET Left == [r \in Index |-> SubSeq(aug[r], 1, dim)]
        Right == [r \in Index |-> SubSeq(aug[r], dim + 1, 2 * dim)]
    IN  /\ stage = "eliminate" =>
              /\ Product(Right, data) = Left
              /\ \A c \in 1..(column - 1) : Column(Left, c) = Column(Identity, c)
        /\ stage = "retry" => Det(data) = 0
        /\ stage = "ready" /\ Det(data) # 0 => Product(data, inverse) = Identity

(* With an invertible matrix restore undoes obfuscate: whatever number of  *)
(* rows the two calls are given, restore returns the hidden tensor, whole, *)
(* or an error.                                                            *)
RoundTrip ==
    restored \in {<<>>, Error, plain} \/ Det(data) = 0

(* generate returns: some draw is invertible, and invert then says so.     *)
GenerateReturns == <>(stage = "ready")

(* "Generates a new random invertible matrix": what generate returns has   *)
(* an inverse.                                                             *)
GeneratedInvertible == stage = "ready" => Det(data) # 0
=============================================================================
