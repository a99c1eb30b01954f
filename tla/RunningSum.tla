------------------------------ MODULE RunningSum ------------------------------
(***************************************************************************)
(* The sum of consecutive values, which averages of frames and distances   *)
(* along a path are defined by.                                            *)
(***************************************************************************)
EXTENDS Integers

\* v[lo] + ... + v[hi], and 0 if hi is lo - 1.
SumOver(v, lo, hi) ==
  LET sum[k \in (lo - 1)..hi] == IF k = lo - 1 THEN 0 ELSE sum[k - 1] + v[k]
  IN sum[hi]
===============================================================================
