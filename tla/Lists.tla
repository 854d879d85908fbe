-------------------------------- MODULE Lists --------------------------------
(***************************************************************************)
(* What the services do with Python lists, as recursive functions: a list  *)
(* comprehension with a test, and sum.  (SelectSeq and the folds are not   *)
(* open to proof.)                                                         *)
(***************************************************************************)
EXTENDS Integers, Sequences

\* The elements of s at the positions in K, in their order.
Keep(s, K) ==
  LET kept[n \in 0 .. Len(s)] ==
        IF n = 0 THEN <<>> ELSE IF n \in K THEN Append(kept[n - 1], s[n]) ELSE kept[n - 1] IN
  kept[Len(s)]

Total(s) ==
  LET sum[n \in 0 .. Len(s)] == IF n = 0 THEN 0 ELSE sum[n - 1] + s[n] IN
  sum[Len(s)]
=============================================================================
