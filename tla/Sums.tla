-------------------------------- MODULE Sums --------------------------------
(* Sums over the first n values of a function on the positive numbers. *)
EXTENDS Integers

SumUpTo(f, n) ==
    LET sum[m \in 0..n] == IF m = 0 THEN 0 ELSE sum[m - 1] + f[m]
    IN  sum[n]
=============================================================================
