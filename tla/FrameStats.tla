------------------------------ MODULE FrameStats ------------------------------
(***************************************************************************)
(* frame_stats.cpp: least, average and greatest of three timings over      *)
(* windows of WindowSize frames, kept step by step and printed at the end  *)
(* of each window.  Nothing but a full window ever resets them: a window   *)
(* goes on from one session to the next.                                   *)
(*                                                                         *)
(* Times are integers; an average is its sum, over WindowSize.             *)
(*                                                                         *)
(* Definitions whose names begin with Broken are mistakes the properties   *)
(* would notice; the model does not use them.                              *)
(***************************************************************************)
EXTENDS Integers, Sequences, RunningSum

CONSTANTS WindowSize,   \* WINDOW_SIZE
          DblMax,       \* DBL_MAX: greater than any time
          Transfer,     \* the values of frame_transfer_time, of either sign
          Processing,   \* the values of processing_time
          MaxFrames     \* bound: frames recorded

ASSUME StatsAssumption ==
  /\ WindowSize \in Nat \ {0}
  /\ DblMax \in Nat
  /\ Transfer \subseteq Int /\ Processing \subseteq Int
  /\ MaxFrames \in Nat
  /\ \A t \in Transfer, p \in Processing :
       \A x \in {t, p, t + p} : -DblMax < x /\ x < DblMax

VARIABLES
  s_count,       \* frames in the window so far
  s_transfer, s_processing, s_total,   \* the three running statistics
  printed,       \* the statistics printed last
  history        \* all frames recorded (ghost)

vars == <<s_count, s_transfer, s_processing, s_total, printed, history>>

\* stat_reset
BrokenStatReset == [sum |-> 0, min |-> DblMax, max |-> 0]
StatReset == [sum |-> 0, min |-> DblMax, max |-> -DblMax]

\* stat_add.  The first value of a window is its least and its greatest.
StatAdd(s, value) ==
  [sum |-> s.sum + value,
   min |-> IF value < s.min THEN value ELSE s.min,
   max |-> IF value > s.max THEN value ELSE s.max]

Init ==
  /\ s_count = 0
  /\ s_transfer = [sum |-> 0, min |-> 0, max |-> 0]
  /\ s_processing = [sum |-> 0, min |-> 0, max |-> 0]
  /\ s_total = [sum |-> 0, min |-> 0, max |-> 0]
  /\ printed = <<>>
  /\ history = <<>>

BrokenFresh(s) == s
Fresh(s) == IF s_count = 0 THEN StatReset ELSE s

BrokenFull(n) == n > WindowSize
Full(n) == n >= WindowSize

\* frame_stats_record
Record(transfer, processing) ==
  /\ Len(history) < MaxFrames
  /\ s_transfer' = StatAdd(Fresh(s_transfer), transfer)
  /\ s_processing' = StatAdd(Fresh(s_processing), processing)
  /\ s_total' = StatAdd(Fresh(s_total), transfer + processing)
  /\ history' = Append(history, [transfer |-> transfer, processing |-> processing])
  /\ IF Full(s_count + 1)
     THEN /\ s_count' = 0
          /\ printed' = [transfer |-> s_transfer', processing |-> s_processing', total |-> s_total']
     ELSE s_count' = s_count + 1 /\ UNCHANGED printed

\* The bound is reached.
Quiet == Len(history) = MaxFrames /\ UNCHANGED vars

Next == Quiet \/ \E t \in Transfer, p \in Processing : Record(t, p)

Spec == Init /\ [][Next]_vars

-----------------------------------------------------------------------------
(* What must hold. *)

Stat == [sum : Int, min : Int, max : Int]
Frame == [transfer : Transfer, processing : Processing]

\* The type invariant.
TypeOK ==
  /\ s_count \in 0..WindowSize - 1
  /\ s_transfer \in Stat /\ s_processing \in Stat /\ s_total \in Stat
  /\ printed = <<>> \/ printed \in [transfer : Stat, processing : Stat, total : Stat]
  /\ history \in Seq(Frame)

Total(f) == f.transfer + f.processing

\* Where the window begins whose statistics were printed last.
Printed == (Len(history) - s_count - WindowSize + 1)..(Len(history) - s_count)

\* The least and the greatest of the values of v at I are those of the statistic s.
Extremes(s, v, I) ==
  /\ \E i \in I : v[i] = s.min
  /\ \E i \in I : v[i] = s.max
  /\ \A i \in I : s.min <= v[i] /\ v[i] <= s.max

Transfers == [i \in 1..Len(history) |-> history[i].transfer]
Processings == [i \in 1..Len(history) |-> history[i].processing]
Totals == [i \in 1..Len(history) |-> Total(history[i])]

\* What is printed as least and greatest are those of exactly the last full window, of
\* WindowSize frames that no other window has: no value of the window before stays, none is
\* lost between two windows, and negative transfer times, which a controller's clock that
\* runs ahead brings about, count as what they are.
ReportExtremes ==
  printed # <<>> =>
    /\ Extremes(printed.transfer, Transfers, Printed)
    /\ Extremes(printed.processing, Processings, Printed)
    /\ Extremes(printed.total, Totals, Printed)

\* The sum of the values of v in the window printed last.
WindowSum(v) == SumOver(v, Len(history) - s_count - WindowSize + 1, Len(history) - s_count)

\* And what is printed as average is that of the same frames, each of them once.
ReportSums ==
  printed # <<>> =>
    /\ printed.transfer.sum = WindowSum(Transfers)
    /\ printed.processing.sum = WindowSum(Processings)
    /\ printed.total.sum = WindowSum(Totals)

\* A window is printed as soon as it is full, and the windows follow each other without gap
\* or overlap: the frames not printed yet are those after the last multiple of WindowSize.
WindowsTile ==
  /\ s_count = Len(history) % WindowSize
  /\ printed # <<>> <=> Len(history) >= WindowSize
=============================================================================
