-------------------------------- MODULE Sums --------------------------------
(***************************************************************************)
(* The loops that add something up: v[1] + ... + v[n].                     *)
(***************************************************************************)
EXTENDS Integers

SumTo(n, v) ==
    LET sum[i \in 0..n] == IF i = 0 THEN 0 ELSE sum[i - 1] + v[i]
    IN  sum[n]
=============================================================================
