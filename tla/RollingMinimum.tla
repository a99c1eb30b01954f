---------------------------- MODULE RollingMinimum ----------------------------
(***************************************************************************)
(* What clock_offset.h promises: of each transfer time observed, by how    *)
(* much it exceeds the smallest one observed within the last Window        *)
(* seconds since the estimate was last reset.  The promise is kept as long *)
(* as the clock has only gone forward since then; if it has been set back, *)
(* all that is promised is a time that is not negative.                    *)
(***************************************************************************)
EXTENDS Integers

CONSTANTS Window,      \* length of the rolling window
          Transfer,    \* the transfer times that occur
          MaxTime      \* bound: how far the clock runs

VARIABLES clock,       \* the time, as the process reads it
          steady,      \* the clock has not been set back since the last reset
          seen,        \* the samples observed since the last reset
          answer       \* the corrected time returned last

vars == <<clock, steady, seen, answer>>

Recent(S, t) == {s \in S : t - s.at <= Window}
Least(S) == CHOOSE x \in {s.transfer : s \in S} : \A s \in S : x <= s.transfer

Init == clock = 0 /\ steady = TRUE /\ seen = {} /\ answer = 0

Tick == clock' \in clock + 1..MaxTime /\ UNCHANGED <<steady, seen, answer>>

SetBack ==
  /\ clock' \in 0..clock - 1
  /\ steady' = (steady /\ seen = {})
  /\ UNCHANGED <<seen, answer>>

Reset ==
  /\ seen' = {}
  /\ steady' = TRUE
  /\ UNCHANGED <<clock, answer>>

Observe(x) ==
  /\ seen' = seen \cup {[at |-> clock, transfer |-> x]}
  /\ answer' \in Nat
  /\ steady => answer' = x - Least(Recent(seen', clock))
  /\ UNCHANGED <<clock, steady>>

Next == Tick \/ SetBack \/ Reset \/ \E x \in Transfer : Observe(x)

Spec == Init /\ [][Next]_vars
=============================================================================
