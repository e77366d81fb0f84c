---------------------------- MODULE Subsequences ----------------------------
(***************************************************************************)
(* What a loop does that goes through a list and pushes some of its        *)
(* elements onto another one: blind_split of the router, operator fusion   *)
(* and dead code elimination of the pass manager.  It is a recursive       *)
(* function of the number of turns, so that it can be reasoned about.      *)
(***************************************************************************)
EXTENDS Integers, Sequences

\* The list pushed to, after each turn.
PickTo(s, K) ==
    LET picked[n \in 0..Len(s)] ==
            IF n = 0 THEN <<>>
            ELSE IF n \in K THEN Append(picked[n - 1], s[n])
            ELSE picked[n - 1]
    IN  picked

\* The elements of s at the positions in K, in their order.
Pick(s, K) == PickTo(s, K)[Len(s)]

\* The same, said without a loop: t consists of the elements of s at the
\* positions in K, each once and in order.
IsSubsequence(t, s, K) ==
    \E at \in [DOMAIN t -> K] :
        /\ \A k \in DOMAIN t : t[k] = s[at[k]]
        /\ \A k, m \in DOMAIN t : k < m => at[k] < at[m]
        /\ \A i \in K : \E k \in DOMAIN t : at[k] = i
=============================================================================
