-------------------------------- MODULE Lists --------------------------------
(***************************************************************************)
(* Two operators on functions and sequences that several modules use,      *)
(* written with recursive functions so that what they compute can be       *)
(* proved (Lists_proofs).                                                  *)
(***************************************************************************)
EXTENDS Naturals, Sequences

\* The sum of f[1], ..., f[n].
Total(f, n) ==
    LET sum[i \in 0..n] == IF i = 0 THEN 0 ELSE sum[i - 1] + f[i]
    IN  sum[n]

\* The elements of s that are in S, in their order.
Keeping(s, S) ==
    LET kept[i \in 0..Len(s)] ==
            IF i = 0 THEN <<>>
            ELSE IF s[i] \in S THEN Append(kept[i - 1], s[i]) ELSE kept[i - 1]
    IN  kept[Len(s)]
=============================================================================
