-------------------------------- MODULE Sums --------------------------------
(***************************************************************************)
(* The sum of the numbers of a sequence, from the first one on.  It is a   *)
(* recursive function, not a fold over a set of indices, so that it can be *)
(* reasoned about.                                                         *)
(***************************************************************************)
EXTENDS Naturals, Sequences

Total(w) ==
    LET sum[n \in 0..Len(w)] == IF n = 0 THEN 0 ELSE sum[n - 1] + w[n]
    IN  sum[Len(w)]

=============================================================================
