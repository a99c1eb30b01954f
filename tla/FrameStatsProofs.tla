--------------------------- MODULE FrameStatsProofs ---------------------------
(***************************************************************************)
(* Proofs about FrameStats, for any length of the window, any times and    *)
(* any number of frames: its type invariant, where its windows begin and   *)
(* end, and the least, the greatest and the sum that it reports.           *)
(*                                                                         *)
(* A report is right because the running statistics are right in every     *)
(* state before it: while a window is pending they are the extremes and    *)
(* the sums of its frames so far.                                          *)
(***************************************************************************)
EXTENDS FrameStats, RunningSumProofs, SequenceTheorems, TLAPS

\* The frames recorded since the last report.
Pending == (Len(history) - s_count + 1)..Len(history)

PendingExtremes ==
  s_count > 0 =>
    /\ Extremes(s_transfer, Transfers, Pending)
    /\ Extremes(s_processing, Processings, Pending)
    /\ Extremes(s_total, Totals, Pending)

Counts ==
  /\ s_count <= Len(history)
  /\ printed # <<>> => s_count + WindowSize <= Len(history)

IInv == TypeOK /\ Counts /\ PendingExtremes /\ ReportExtremes

IsTime(x) == x \in Int /\ -DblMax < x /\ x < DblMax

\* The n values of v are the first of w, and x the next.
Longer(v, w, n, x) ==
  /\ \A i \in 1..n : v[i] \in Int /\ w[i] = v[i]
  /\ w[n + 1] = x

\* s is reset, or holds the extremes of the last m of n values.
SoFar(s, v, n, m) ==
  /\ m = 0 => s = StatReset
  /\ m > 0 => Extremes(s, v, (n - m + 1)..n)

\* Times are less than DBL_MAX.
LEMMA Times ==
  ASSUME NEW t \in Transfer, NEW p \in Processing
  PROVE  \A x \in {t, p, t + p} : x \in Int /\ -DblMax < x /\ x < DblMax
BY StatsAssumption DEF StatsAssumption

\* What stat_add makes of the extremes of the last m of n values, of none if it was reset,
\* are those of the last m and the new one.
LEMMA AddExtremes ==
  ASSUME NEW s \in Stat, NEW x, IsTime(x), NEW n \in Nat, NEW m \in 0..n, NEW v, NEW w,
         Longer(v, w, n, x), SoFar(s, v, n, m)
  PROVE  StatAdd(s, x) \in Stat /\ Extremes(StatAdd(s, x), w, (n - m + 1)..(n + 1))
<1> USE DEF IsTime, Longer, SoFar
<1> DEFINE r == StatAdd(s, x)
           I == (n - m + 1)..n
           J == (n - m + 1)..(n + 1)
<1>1. /\ r.min = IF x < s.min THEN x ELSE s.min
      /\ r.max = IF x > s.max THEN x ELSE s.max
      /\ r \in Stat /\ s.min \in Int /\ s.max \in Int
  BY DEF StatAdd, Stat
<1> HIDE DEF r
<1>2. DblMax \in Nat
  BY StatsAssumption DEF StatsAssumption
<1>3. n + 1 \in J /\ w[n + 1] = x
  OBVIOUS
<1>4. \A i \in J : i \in I \/ i = n + 1
  OBVIOUS
<1>5. \A i \in I : i \in J /\ i \in 1..n
  OBVIOUS
<1>6. CASE m = 0
  <2>1. s.min = DblMax /\ s.max = -DblMax
    BY <1>6 DEF StatReset
  <2>2. r.min = x /\ r.max = x
    BY <1>1, <1>2, <2>1
  <2>3. \A i \in J : i = n + 1
    BY <1>6
  <2>4. Extremes(r, w, J)
    <3> HIDE DEF J
    <3> QED BY <1>3, <2>2, <2>3 DEF Extremes
  <2>5. QED BY <1>1, <2>4 DEF r
<1>7. CASE m > 0
  <2>1. Extremes(s, v, I)
    BY <1>7
  <2> HIDE DEF I, J
  <2>2. PICK a \in I : v[a] = s.min
    BY <2>1 DEF Extremes
  <2>3. PICK b \in I : v[b] = s.max
    BY <2>1 DEF Extremes
  <2>4. \A i \in I : w[i] = v[i] /\ w[i] \in Int /\ s.min <= w[i] /\ w[i] <= s.max
    BY <1>5, <2>1 DEF Extremes
  <2>5. \E i \in J : w[i] = r.min
    BY <1>1, <1>3, <1>5, <2>2, <2>4
  <2>6. \E i \in J : w[i] = r.max
    BY <1>1, <1>3, <1>5, <2>3, <2>4
  <2>7. \A i \in I : r.min <= w[i] /\ w[i] <= r.max
    BY <1>1, <2>4
  <2>8. r.min <= x /\ x <= r.max
    BY <1>1
  <2>9. Extremes(r, w, J)
    BY <1>3, <1>4, <2>5, <2>6, <2>7, <2>8 DEF Extremes
  <2>10. QED BY <1>1, <2>9 DEF r, J
<1>8. QED BY <1>6, <1>7

\* The first state.
LEMMA InitIInv == Init => IInv
<1> SUFFICES ASSUME Init PROVE IInv
  OBVIOUS
<1>1. WindowSize \in Nat \ {0}
  BY StatsAssumption DEF StatsAssumption
<1>2. [sum |-> 0, min |-> 0, max |-> 0] \in Stat
  BY DEF Stat
<1>3. TypeOK
  BY <1>1, <1>2 DEF Init, TypeOK
<1>4. Len(history) = 0 /\ s_count = 0 /\ printed = <<>>
  BY DEF Init
<1>5. QED BY <1>3, <1>4 DEF IInv, Counts, PendingExtremes, ReportExtremes

\* What recording a frame does to the values recorded and to the running statistics, which
\* a new window starts with reset ones.
LEMMA Recorded ==
  ASSUME IInv, NEW t \in Transfer, NEW p \in Processing, Record(t, p)
  PROVE  /\ history \in Seq(Frame) /\ Len(history) \in Nat /\ s_count \in 0..Len(history)
         /\ WindowSize \in Nat \ {0} /\ s_count \in 0..WindowSize - 1
         /\ history' \in Seq(Frame) /\ Len(history') = Len(history) + 1
         /\ Longer(Transfers, Transfers', Len(history), t)
         /\ Longer(Processings, Processings', Len(history), p)
         /\ Longer(Totals, Totals', Len(history), t + p)
         /\ IsTime(t) /\ IsTime(p) /\ IsTime(t + p)
         /\ \A s \in Stat : Fresh(s) \in Stat /\ (s_count = 0 => Fresh(s) = StatReset)
                          /\ (s_count > 0 => Fresh(s) = s)
         /\ s_transfer' = StatAdd(Fresh(s_transfer), t)
         /\ s_processing' = StatAdd(Fresh(s_processing), p)
         /\ s_total' = StatAdd(Fresh(s_total), t + p)
         /\ s_transfer \in Stat /\ s_processing \in Stat /\ s_total \in Stat
<1> DEFINE frame == [transfer |-> t, processing |-> p]
           n == Len(history)
<1>1. /\ history \in Seq(Frame) /\ n \in Nat /\ s_count \in 0..n
      /\ WindowSize \in Nat \ {0} /\ s_count \in 0..WindowSize - 1
      /\ s_transfer \in Stat /\ s_processing \in Stat /\ s_total \in Stat
  BY StatsAssumption, LenProperties DEF StatsAssumption, IInv, TypeOK, Counts
<1>2. frame \in Frame /\ history' = Append(history, frame)
  BY DEF Record, Frame
<1>3. /\ history' \in Seq(Frame) /\ Len(history') = n + 1
      /\ history'[n + 1] = frame /\ \A i \in 1..n : history'[i] = history[i]
  BY <1>1, <1>2, AppendProperties
<1>4. \A i \in 1..n : history[i] \in Frame
  BY <1>1, ElementOfSeq
<1>5. ASSUME NEW i \in 1..n
      PROVE  /\ Transfers[i] \in Int /\ Transfers'[i] = Transfers[i]
             /\ Processings[i] \in Int /\ Processings'[i] = Processings[i]
             /\ Totals[i] \in Int /\ Totals'[i] = Totals[i]
  <2>1. history[i].transfer \in Int /\ history[i].processing \in Int
    BY <1>4, StatsAssumption DEF StatsAssumption, Frame
  <2>2. Total(history[i]) \in Int
    BY <2>1 DEF Total
  <2>3. i \in 1..Len(history) /\ i \in 1..Len(history') /\ history'[i] = history[i]
    BY <1>1, <1>3
  <2>4. Transfers[i] = history[i].transfer /\ Transfers'[i] = history'[i].transfer
    BY <2>3 DEF Transfers
  <2>5. Processings[i] = history[i].processing /\ Processings'[i] = history'[i].processing
    BY <2>3 DEF Processings
  <2>6. Totals[i] = Total(history[i]) /\ Totals'[i] = Total(history'[i])
    BY <2>3 DEF Totals, Total
  <2>7. QED BY <2>1, <2>2, <2>3, <2>4, <2>5, <2>6
<1>6. /\ \A i \in 1..n : Transfers[i] \in Int /\ Transfers'[i] = Transfers[i]
      /\ \A i \in 1..n : Processings[i] \in Int /\ Processings'[i] = Processings[i]
      /\ \A i \in 1..n : Totals[i] \in Int /\ Totals'[i] = Totals[i]
  BY <1>5
<1>7. Transfers'[n + 1] = t /\ Processings'[n + 1] = p /\ Totals'[n + 1] = t + p
  BY <1>1, <1>3 DEF Transfers, Processings, Totals, Total
<1>8. \A s \in Stat : Fresh(s) \in Stat /\ (s_count = 0 => Fresh(s) = StatReset)
                      /\ (s_count > 0 => Fresh(s) = s)
  BY <1>1, StatsAssumption DEF StatsAssumption, Fresh, StatReset, Stat
<1>9. \A x \in {t, p, t + p} : x \in Int /\ -DblMax < x /\ x < DblMax
  BY Times
<1>10. /\ s_transfer' = StatAdd(Fresh(s_transfer), t)
       /\ s_processing' = StatAdd(Fresh(s_processing), p)
       /\ s_total' = StatAdd(Fresh(s_total), t + p)
  BY DEF Record
<1>11. /\ Longer(Transfers, Transfers', n, t)
       /\ Longer(Processings, Processings', n, p)
       /\ Longer(Totals, Totals', n, t + p)
  BY <1>6, <1>7 DEF Longer
<1>12. IsTime(t) /\ IsTime(p) /\ IsTime(t + p)
  BY <1>9 DEF IsTime
<1>13. QED BY <1>1, <1>3, <1>8, <1>10, <1>11, <1>12

\* Recording a frame: the window pending so far, or a new one, has one frame more.
LEMMA RecordStep ==
  ASSUME IInv, NEW t \in Transfer, NEW p \in Processing, Record(t, p)
  PROVE  IInv'
<1> DEFINE n == Len(history)
           J == (n - s_count + 1)..(n + 1)
<1>1. /\ history \in Seq(Frame) /\ n \in Nat /\ s_count \in 0..n
      /\ WindowSize \in Nat \ {0} /\ s_count \in 0..WindowSize - 1
      /\ s_transfer \in Stat /\ s_processing \in Stat /\ s_total \in Stat
  BY Recorded
<1>2. history' \in Seq(Frame) /\ Len(history') = n + 1
  BY Recorded
<1>3. /\ Longer(Transfers, Transfers', n, t)
      /\ Longer(Processings, Processings', n, p)
      /\ Longer(Totals, Totals', n, t + p)
      /\ IsTime(t) /\ IsTime(p) /\ IsTime(t + p)
  BY Recorded
<1>4. \A s \in Stat : Fresh(s) \in Stat /\ (s_count = 0 => Fresh(s) = StatReset)
                      /\ (s_count > 0 => Fresh(s) = s)
  BY Recorded
<1>5. /\ s_transfer' = StatAdd(Fresh(s_transfer), t)
       /\ s_processing' = StatAdd(Fresh(s_processing), p)
       /\ s_total' = StatAdd(Fresh(s_total), t + p)
  BY Recorded
<1> HIDE DEF n
<1>6. s_transfer' \in Stat /\ Extremes(s_transfer', Transfers', J)
  <2> DEFINE s == Fresh(s_transfer)
  <2>1. s_count > 0 => Extremes(s, Transfers, (n - s_count + 1)..n)
    BY <1>1, <1>4 DEF IInv, PendingExtremes, Pending, n
  <2>2. s \in Stat /\ (s_count = 0 => s = StatReset)
    BY <1>1, <1>4
  <2>3. n \in Nat /\ s_count \in 0..n
    BY <1>1
  <2>4. IsTime(t) /\ Longer(Transfers, Transfers', n, t) /\ SoFar(s, Transfers, n, s_count)
    BY <1>3, <2>1, <2>2 DEF SoFar
  <2>5. s_transfer' = StatAdd(s, t)
    BY <1>5
  <2> HIDE DEF s
  <2>6. /\ StatAdd(s, t) \in Stat
        /\ Extremes(StatAdd(s, t), Transfers', (n - s_count + 1)..(n + 1))
    BY <2>2, <2>3, <2>4, AddExtremes
  <2>7. QED BY <2>5, <2>6
<1>7. s_processing' \in Stat /\ Extremes(s_processing', Processings', J)
  <2> DEFINE s == Fresh(s_processing)
  <2>1. s_count > 0 => Extremes(s, Processings, (n - s_count + 1)..n)
    BY <1>1, <1>4 DEF IInv, PendingExtremes, Pending, n
  <2>2. s \in Stat /\ (s_count = 0 => s = StatReset)
    BY <1>1, <1>4
  <2>3. n \in Nat /\ s_count \in 0..n
    BY <1>1
  <2>4. IsTime(p) /\ Longer(Processings, Processings', n, p) /\ SoFar(s, Processings, n, s_count)
    BY <1>3, <2>1, <2>2 DEF SoFar
  <2>5. s_processing' = StatAdd(s, p)
    BY <1>5
  <2> HIDE DEF s
  <2>6. /\ StatAdd(s, p) \in Stat
        /\ Extremes(StatAdd(s, p), Processings', (n - s_count + 1)..(n + 1))
    BY <2>2, <2>3, <2>4, AddExtremes
  <2>7. QED BY <2>5, <2>6
<1>8. s_total' \in Stat /\ Extremes(s_total', Totals', J)
  <2> DEFINE s == Fresh(s_total)
  <2>1. s_count > 0 => Extremes(s, Totals, (n - s_count + 1)..n)
    BY <1>1, <1>4 DEF IInv, PendingExtremes, Pending, n
  <2>2. s \in Stat /\ (s_count = 0 => s = StatReset)
    BY <1>1, <1>4
  <2>3. n \in Nat /\ s_count \in 0..n
    BY <1>1
  <2>4. IsTime(t + p) /\ Longer(Totals, Totals', n, t + p) /\ SoFar(s, Totals, n, s_count)
    BY <1>3, <2>1, <2>2 DEF SoFar
  <2>5. s_total' = StatAdd(s, t + p)
    BY <1>5
  <2> HIDE DEF s
  <2>6. /\ StatAdd(s, t + p) \in Stat
        /\ Extremes(StatAdd(s, t + p), Totals', (n - s_count + 1)..(n + 1))
    BY <2>2, <2>3, <2>4, AddExtremes
  <2>7. QED BY <2>5, <2>6
<1>9. CASE ~Full(s_count + 1)
  <2>1. s_count' = s_count + 1 /\ printed' = printed
    BY <1>9 DEF Record
  <2>2. s_count' \in 0..WindowSize - 1 /\ s_count' <= n + 1
    BY <1>1, <1>9, <2>1 DEF Full
  <2>3. TypeOK'
    BY <1>2, <1>6, <1>7, <1>8, <2>1, <2>2 DEF IInv, TypeOK
  <2>4. Pending' = J
    BY <1>1, <1>2, <2>1 DEF Pending
  <2>5. PendingExtremes'
    BY <1>6, <1>7, <1>8, <2>4 DEF PendingExtremes
  <2>6. Counts'
    BY <1>1, <1>2, <2>1, <2>2 DEF IInv, Counts, n
  <2>7. ASSUME printed # <<>> PROVE ReportExtremes'
    <3> DEFINE c == n - s_count
    <3>0. c \in Nat /\ WindowSize <= c /\ c <= n /\ Len(history') - s_count' = c
      <4>1. s_count + WindowSize <= n
        BY <2>7 DEF IInv, Counts, n
      <4>2. Len(history') - s_count' = n - s_count
        BY <1>1, <1>2, <2>1
      <4>3. QED BY <1>1, <4>1, <4>2
    <3>1. Printed' = Printed /\ Printed \subseteq 1..n
      <4>1. Printed = (c - WindowSize + 1)..c
        BY <1>1 DEF Printed, n
      <4>2. Printed' = (c - WindowSize + 1)..c
        BY <1>1, <1>2, <2>1, <3>0 DEF Printed
      <4> HIDE DEF c
      <4>3. QED BY <1>1, <3>0, <4>1, <4>2
    <3>2. /\ Extremes(printed.transfer, Transfers, Printed)
          /\ Extremes(printed.processing, Processings, Printed)
          /\ Extremes(printed.total, Totals, Printed)
      BY <2>7 DEF IInv, ReportExtremes
    <3>3. /\ Extremes(printed.transfer, Transfers', Printed)
          /\ Extremes(printed.processing, Processings', Printed)
          /\ Extremes(printed.total, Totals', Printed)
      BY <1>3, <3>1, <3>2 DEF Longer, Extremes
    <3>4. QED BY <2>1, <3>1, <3>3 DEF ReportExtremes
  <2>8. QED BY <2>1, <2>3, <2>5, <2>6, <2>7 DEF IInv, ReportExtremes
<1>10. CASE Full(s_count + 1)
  <2>1. /\ s_count' = 0
        /\ printed' = [transfer |-> s_transfer', processing |-> s_processing', total |-> s_total']
    BY <1>10 DEF Record
  <2>2. s_count + 1 = WindowSize
    BY <1>1, <1>10 DEF Full
  <2>3. /\ printed'.transfer = s_transfer' /\ printed'.processing = s_processing'
        /\ printed'.total = s_total'
        /\ printed' \in [transfer : Stat, processing : Stat, total : Stat]
    BY <1>6, <1>7, <1>8, <2>1
  <2>4. TypeOK'
    BY <1>1, <1>2, <1>6, <1>7, <1>8, <2>1, <2>3 DEF TypeOK
  <2>5. Counts'
    BY <1>1, <1>2, <2>1, <2>2 DEF Counts
  <2>6. PendingExtremes'
    BY <2>1 DEF PendingExtremes
  <2>7. Printed' = J
    BY <1>1, <1>2, <2>1, <2>2 DEF Printed
  <2>8. ReportExtremes'
    BY <1>6, <1>7, <1>8, <2>3, <2>7 DEF ReportExtremes
  <2>9. QED BY <2>4, <2>5, <2>6, <2>8 DEF IInv
<1>11. QED BY <1>9, <1>10

\* Every step preserves the inductive invariant.
LEMMA NextIInv == IInv /\ [Next]_vars => IInv'
<1> SUFFICES ASSUME IInv, [Next]_vars PROVE IInv'
  OBVIOUS
<1>1. ASSUME NEW t \in Transfer, NEW p \in Processing, Record(t, p) PROVE IInv'
  BY <1>1, RecordStep
<1>2. CASE UNCHANGED vars
  BY <1>2 DEF vars, IInv, TypeOK, Counts, PendingExtremes, ReportExtremes, Pending, Printed,
              Transfers, Processings, Totals
<1>3. QED BY <1>1, <1>2 DEF Next, Quiet

\* The inductive invariant holds in every reachable state.
THEOREM Inductive == Spec => []IInv
BY InitIInv, NextIInv, PTL DEF Spec

\* The variables have their types, for any length of the window and any times.
THEOREM TypeCorrect == Spec => []TypeOK
<1>1. IInv => TypeOK
  BY DEF IInv
<1>2. QED BY Inductive, <1>1, PTL

\* ReportExtremes: least and greatest of each report are those of exactly its own window's
\* frames, for any length of the window and transfer times of either sign.
THEOREM ReportsAreExtremes == Spec => []ReportExtremes
<1>1. IInv => ReportExtremes
  BY DEF IInv
<1>2. QED BY Inductive, <1>1, PTL

-----------------------------------------------------------------------------
(* The sums. *)

PendingSums ==
  s_count > 0 =>
    /\ s_transfer.sum = SumOver(Transfers, Len(history) - s_count + 1, Len(history))
    /\ s_processing.sum = SumOver(Processings, Len(history) - s_count + 1, Len(history))
    /\ s_total.sum = SumOver(Totals, Len(history) - s_count + 1, Len(history))

SumInv == PendingSums /\ ReportSums

\* s is reset, or holds the sum of the last m of n values.
SumSoFar(s, v, n, m) ==
  /\ m = 0 => s = StatReset
  /\ m > 0 => s.sum = SumOver(v, n - m + 1, n)

\* stat_add adds the new value to the sum of the last m of n values, of none if it was reset.
LEMMA AddSum ==
  ASSUME NEW s \in Stat, NEW x, IsTime(x), NEW n \in Nat, NEW m \in 0..n, NEW v, NEW w,
         Longer(v, w, n, x), SumSoFar(s, v, n, m)
  PROVE  StatAdd(s, x).sum = SumOver(w, n - m + 1, n + 1)
<1> USE DEF SumSoFar
<1> DEFINE lo == n - m + 1
<1>1. lo \in Int /\ n + 1 \in Int /\ lo <= n + 1 /\ lo >= 1 /\ (n + 1) - 1 = n
  OBVIOUS
<1>2. s.sum = SumOver(v, lo, n)
  <2>1. CASE m = 0
    <3>1. s.sum = 0
      BY <2>1 DEF StatReset
    <3>2. n = lo - 1
      BY <2>1
    <3> HIDE DEF lo
    <3>3. SumOver(v, lo, lo - 1) = 0
      BY <1>1, SumOfNone
    <3>4. QED BY <3>1, <3>2, <3>3
  <2>2. CASE m > 0
    BY <2>2
  <2>3. QED BY <2>1, <2>2
<1>3. StatAdd(s, x).sum = s.sum + x
  BY DEF StatAdd
<1>4. w[n + 1] = x
  BY DEF Longer
<1> HIDE DEF lo
<1>5. Agree(v, w, lo, n)
  BY <1>1 DEF Longer, Agree
<1>6. lo - 1 <= n /\ n \in Int
  BY <1>1
<1>7. SumOver(w, lo, n + 1) = SumOver(v, lo, n) + w[n + 1]
  BY <1>1, <1>5, <1>6, SumOfMore
<1>8. QED BY <1>2, <1>3, <1>4, <1>7 DEF lo

\* Recording a frame keeps the sums.
LEMMA RecordSums ==
  ASSUME IInv, SumInv, NEW t \in Transfer, NEW p \in Processing, Record(t, p)
  PROVE  SumInv'
<1> DEFINE n == Len(history)
<1>1. /\ n \in Nat /\ s_count \in 0..n /\ Len(history') = n + 1
      /\ WindowSize \in Nat \ {0} /\ s_count \in 0..WindowSize - 1
      /\ s_transfer \in Stat /\ s_processing \in Stat /\ s_total \in Stat
  BY Recorded
<1>2. /\ Longer(Transfers, Transfers', n, t)
      /\ Longer(Processings, Processings', n, p)
      /\ Longer(Totals, Totals', n, t + p)
      /\ IsTime(t) /\ IsTime(p) /\ IsTime(t + p)
  BY Recorded
<1>3. \A s \in Stat : Fresh(s) \in Stat /\ (s_count = 0 => Fresh(s) = StatReset)
                      /\ (s_count > 0 => Fresh(s) = s)
  BY Recorded
<1>4. /\ s_transfer' = StatAdd(Fresh(s_transfer), t)
      /\ s_processing' = StatAdd(Fresh(s_processing), p)
      /\ s_total' = StatAdd(Fresh(s_total), t + p)
  BY Recorded
<1>5. s_count > 0 => /\ s_transfer.sum = SumOver(Transfers, n - s_count + 1, n)
                     /\ s_processing.sum = SumOver(Processings, n - s_count + 1, n)
                     /\ s_total.sum = SumOver(Totals, n - s_count + 1, n)
  BY DEF SumInv, PendingSums
<1> HIDE DEF n
<1>6. s_transfer'.sum = SumOver(Transfers', n - s_count + 1, n + 1)
  <2> DEFINE s == Fresh(s_transfer)
  <2>1. s \in Stat /\ SumSoFar(s, Transfers, n, s_count)
    BY <1>1, <1>3, <1>5 DEF SumSoFar
  <2> HIDE DEF s
  <2>2. StatAdd(s, t).sum = SumOver(Transfers', n - s_count + 1, n + 1)
    <3>1. n \in Nat /\ s_count \in 0..n /\ IsTime(t) /\ Longer(Transfers, Transfers', n, t)
      BY <1>1, <1>2
    <3>2. QED BY <2>1, <3>1, AddSum
  <2>3. QED BY <1>4, <2>2 DEF s
<1>7. s_processing'.sum = SumOver(Processings', n - s_count + 1, n + 1)
  <2> DEFINE s == Fresh(s_processing)
  <2>1. s \in Stat /\ SumSoFar(s, Processings, n, s_count)
    BY <1>1, <1>3, <1>5 DEF SumSoFar
  <2> HIDE DEF s
  <2>2. StatAdd(s, p).sum = SumOver(Processings', n - s_count + 1, n + 1)
    <3>1. n \in Nat /\ s_count \in 0..n /\ IsTime(p) /\ Longer(Processings, Processings', n, p)
      BY <1>1, <1>2
    <3>2. QED BY <2>1, <3>1, AddSum
  <2>3. QED BY <1>4, <2>2 DEF s
<1>8. s_total'.sum = SumOver(Totals', n - s_count + 1, n + 1)
  <2> DEFINE s == Fresh(s_total)
  <2>1. s \in Stat /\ SumSoFar(s, Totals, n, s_count)
    BY <1>1, <1>3, <1>5 DEF SumSoFar
  <2> HIDE DEF s
  <2>2. StatAdd(s, t + p).sum = SumOver(Totals', n - s_count + 1, n + 1)
    <3>1. n \in Nat /\ s_count \in 0..n /\ IsTime(t + p) /\ Longer(Totals, Totals', n, t + p)
      BY <1>1, <1>2
    <3>2. QED BY <2>1, <3>1, AddSum
  <2>3. QED BY <1>4, <2>2 DEF s
<1>9. CASE ~Full(s_count + 1)
  <2>1. s_count' = s_count + 1 /\ printed' = printed
    BY <1>9 DEF Record
  <2>2. Len(history') = n + 1 /\ Len(history') - s_count' + 1 = n - s_count + 1
    BY <1>1, <2>1
  <2>3. PendingSums'
    BY <1>6, <1>7, <1>8, <2>2 DEF PendingSums
  <2>4. ASSUME printed # <<>> PROVE ReportSums'
    <3> DEFINE hi == n - s_count
               lo == n - s_count - WindowSize + 1
    <3>1. s_count + WindowSize <= n
      BY <2>4 DEF IInv, Counts, n
    <3>2. lo \in Int /\ hi \in Int /\ lo - 1 <= hi /\ lo >= 1 /\ hi <= n
      BY <1>1, <3>1
    <3>3. Len(history') - s_count' = hi /\ Len(history') - s_count' - WindowSize + 1 = lo
      BY <1>1, <2>1
    <3>4. /\ printed.transfer.sum = SumOver(Transfers, lo, hi)
          /\ printed.processing.sum = SumOver(Processings, lo, hi)
          /\ printed.total.sum = SumOver(Totals, lo, hi)
      BY <2>4 DEF SumInv, ReportSums, WindowSum, n
    <3> HIDE DEF lo, hi
    <3>5. /\ Agree(Transfers, Transfers', lo, hi)
          /\ Agree(Processings, Processings', lo, hi)
          /\ Agree(Totals, Totals', lo, hi)
      BY <1>1, <1>2, <3>2 DEF Longer, Agree
    <3>6. /\ SumOver(Transfers', lo, hi) = SumOver(Transfers, lo, hi)
          /\ SumOver(Processings', lo, hi) = SumOver(Processings, lo, hi)
          /\ SumOver(Totals', lo, hi) = SumOver(Totals, lo, hi)
      BY <3>2, <3>5, SumOfSame
    <3>7. QED BY <2>1, <3>3, <3>4, <3>6 DEF ReportSums, WindowSum
  <2>5. QED BY <2>1, <2>3, <2>4 DEF SumInv, ReportSums
<1>10. CASE Full(s_count + 1)
  <2>1. /\ s_count' = 0
        /\ printed' = [transfer |-> s_transfer', processing |-> s_processing', total |-> s_total']
    BY <1>10 DEF Record
  <2>2. s_count + 1 = WindowSize
    BY <1>1, <1>10 DEF Full
  <2>3. /\ Len(history') - s_count' = n + 1
        /\ Len(history') - s_count' - WindowSize + 1 = n - s_count + 1
    BY <1>1, <2>1, <2>2
  <2>4. /\ printed'.transfer = s_transfer' /\ printed'.processing = s_processing'
        /\ printed'.total = s_total'
    BY <2>1
  <2>5. ReportSums'
    BY <1>6, <1>7, <1>8, <2>3, <2>4 DEF ReportSums, WindowSum
  <2>6. PendingSums'
    BY <2>1 DEF PendingSums
  <2>7. QED BY <2>5, <2>6 DEF SumInv
<1>11. QED BY <1>9, <1>10

\* ReportSums: what is printed as average is that of exactly the window's own frames, for any
\* length of the window.
THEOREM ReportsAreSums == Spec => []ReportSums
<1>1. Init => SumInv
  BY DEF Init, SumInv, PendingSums, ReportSums
<1>2. IInv /\ SumInv /\ [Next]_vars => SumInv'
  <2> SUFFICES ASSUME IInv, SumInv, [Next]_vars PROVE SumInv'
    OBVIOUS
  <2>1. ASSUME NEW t \in Transfer, NEW p \in Processing, Record(t, p) PROVE SumInv'
    BY <2>1, RecordSums
  <2>2. CASE UNCHANGED vars
    BY <2>2 DEF vars, SumInv, PendingSums, ReportSums, WindowSum, Transfers, Processings, Totals
  <2>3. QED BY <2>1, <2>2 DEF Next, Quiet
<1>3. SumInv => ReportSums
  BY DEF SumInv
<1>4. QED BY Inductive, <1>1, <1>2, <1>3, PTL DEF Spec

-----------------------------------------------------------------------------
(* Where windows begin and end. *)

\* The remainder of the next number: one more, or 0 when that is the divisor.
LEMMA NextRemainder ==
  ASSUME NEW n \in Nat, NEW d \in Nat \ {0}
  PROVE  /\ n % d \in 0..(d - 1)
         /\ (n + 1) % d = IF (n % d) + 1 = d THEN 0 ELSE (n % d) + 1
<1> DEFINE q == n \div d
           r == n % d
           q1 == (n + 1) \div d
           r1 == (n + 1) % d
<1>1. q \in Int /\ r \in 0..(d - 1) /\ n = (d * q) + r
  OBVIOUS
<1>2. q1 \in Int /\ r1 \in 0..(d - 1) /\ n + 1 = (d * q1) + r1
  <2> DEFINE k == n + 1
  <2>1. k \in Int
    OBVIOUS
  <2> HIDE DEF k
  <2>2. k \div d \in Int /\ k % d \in 0..(d - 1) /\ k = (d * (k \div d)) + (k % d)
    BY <2>1
  <2>3. QED BY <2>2 DEF k
<1> HIDE DEF q, r, q1, r1
<1> DEFINE e == q1 - q
<1>3. e \in Int /\ d * e = (d * q1) - (d * q) /\ d * q1 \in Int /\ d * q \in Int
  BY <1>1, <1>2
<1>4. d * e = (r + 1) - r1
  BY <1>1, <1>2, <1>3
<1> HIDE DEF e
<1>5. e >= 0
  <2>1. SUFFICES ASSUME -e - 1 \in Nat PROVE FALSE
    BY <1>3
  <2>2. d * (-e - 1) \in Nat
    BY <2>1
  <2>3. d * (-e - 1) = -(d * e) - d
    BY <1>3
  <2>4. QED BY <1>1, <1>2, <1>4, <2>2, <2>3
<1>6. e <= 1
  <2>1. SUFFICES ASSUME e - 2 \in Nat PROVE FALSE
    BY <1>3
  <2>2. d * (e - 2) \in Nat
    BY <2>1
  <2>3. d * (e - 2) = (d * e) - (2 * d)
    BY <1>3
  <2>4. QED BY <1>1, <1>2, <1>4, <2>2, <2>3
<1>7. r1 = IF r + 1 = d THEN 0 ELSE r + 1
  <2>1. CASE e = 0
    <3>1. d * e = 0
      BY <2>1
    <3>2. QED BY <1>1, <1>2, <1>4, <3>1
  <2>2. CASE e = 1
    <3>1. d * e = d
      BY <2>2
    <3>2. QED BY <1>1, <1>2, <1>4, <3>1
  <2>3. QED BY <1>3, <1>5, <1>6, <2>1, <2>2
<1>8. QED BY <1>1, <1>7 DEF r, r1

\* Nothing is printed before the first window is full.
TileInv == WindowsTile /\ (printed = <<>> => s_count = Len(history))

\* WindowsTile: the frames not printed yet are those after the last multiple of the window's
\* length, and every full window was printed.
THEOREM WindowsFollow == Spec => []WindowsTile
<1>1. Init => TileInv
  <2> SUFFICES ASSUME Init PROVE TileInv
    OBVIOUS
  <2>1. WindowSize \in Nat \ {0} /\ Len(history) = 0 /\ s_count = 0 /\ printed = <<>>
    BY StatsAssumption DEF StatsAssumption, Init
  <2>2. 0 % WindowSize = 0
    BY <2>1
  <2>3. QED BY <2>1, <2>2 DEF TileInv, WindowsTile
<1>2. IInv /\ TileInv /\ [Next]_vars => TileInv'
  <2> SUFFICES ASSUME IInv, TileInv, [Next]_vars PROVE TileInv'
    OBVIOUS
  <2>1. ASSUME NEW t \in Transfer, NEW p \in Processing, Record(t, p) PROVE TileInv'
    <3>1. /\ Len(history) \in Nat /\ Len(history') = Len(history) + 1
          /\ WindowSize \in Nat \ {0} /\ s_count \in 0..WindowSize - 1
      BY <2>1, Recorded
    <3>2. /\ s_count = Len(history) % WindowSize
          /\ printed # <<>> <=> Len(history) >= WindowSize
          /\ printed = <<>> => s_count = Len(history)
      BY DEF TileInv, WindowsTile
    <3>3. Len(history') % WindowSize = IF s_count + 1 = WindowSize THEN 0 ELSE s_count + 1
      BY <3>1, <3>2, NextRemainder
    <3>4. CASE ~Full(s_count + 1)
      <4>1. s_count' = s_count + 1 /\ printed' = printed /\ s_count + 1 < WindowSize
        BY <2>1, <3>1, <3>4 DEF Record, Full
      <4>2. printed' # <<>> <=> Len(history') >= WindowSize
        BY <3>1, <3>2, <4>1
      <4>3. QED BY <3>1, <3>2, <3>3, <4>1, <4>2 DEF TileInv, WindowsTile
    <3>5. CASE Full(s_count + 1)
      <4>1. /\ s_count' = 0 /\ s_count + 1 = WindowSize
            /\ printed' = [transfer |-> s_transfer', processing |-> s_processing', total |-> s_total']
        BY <2>1, <3>1, <3>5 DEF Record, Full
      <4>2. printed' # <<>>
        <5>1. printed'.total = s_total'
          BY <4>1
        <5>2. DOMAIN printed' = {"transfer", "processing", "total"} /\ DOMAIN <<>> = {}
          BY <4>1
        <5>3. QED BY <5>2
      <4>3. Len(history') >= WindowSize
        BY <3>1, <3>2, <4>1
      <4>4. QED BY <3>3, <4>1, <4>2, <4>3 DEF TileInv, WindowsTile
    <3>6. QED BY <3>4, <3>5
  <2>2. CASE UNCHANGED vars
    BY <2>2 DEF vars, TileInv, WindowsTile
  <2>3. QED BY <2>1, <2>2 DEF Next, Quiet
<1>3. TileInv => WindowsTile
  BY DEF TileInv
<1>4. QED BY Inductive, <1>1, <1>2, <1>3, PTL DEF Spec
===========================================================================
