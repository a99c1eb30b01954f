-------------------------- MODULE ClockOffsetProofs --------------------------
(***************************************************************************)
(* Proofs about ClockOffset, for every window, any transfer times and any  *)
(* length of the deque: its invariants, and that it implements             *)
(* RollingMinimum.                                                         *)
(*                                                                         *)
(* The heart of it is that expiring from the front is enough.  As long as  *)
(* the clock only goes forward, samples stand in the order of time, so     *)
(* what stands behind the first recent sample is recent, and what stands   *)
(* before it is not: the deque is the window, and has its minimum.         *)
(***************************************************************************)
EXTENDS ClockOffset, FiniteSets, FiniteSetTheorems, SequenceTheorems, RunningSumProofs

Sample == [at : Nat, transfer : Transfer]

-----------------------------------------------------------------------------
(* Least elements *)

\* One of finitely many integers is the least: the one with the fewest below it.
LEMMA LeastValue ==
  ASSUME NEW n \in Nat, n > 0, NEW v \in [1..n -> Int]
  PROVE  \E k \in 1..n : \A j \in 1..n : v[k] <= v[j]
<1> DEFINE Under(k) == {j \in 1..n : v[j] < v[k]}
           T == {Cardinality(Under(k)) : k \in 1..n}
<1>1. ASSUME NEW k \in 1..n
      PROVE  IsFiniteSet(Under(k)) /\ Cardinality(Under(k)) \in Nat
  <2>1. IsFiniteSet(1..n)
    BY FS_Interval
  <2>2. Under(k) \in SUBSET (1..n)
    OBVIOUS
  <2> HIDE DEF Under
  <2>3. QED BY <2>1, <2>2, FS_Subset, FS_CardinalityType
<1>2. T \subseteq Nat
  <2> HIDE DEF Under
  <2> QED BY <1>1
<1>3. 1 \in 1..n
  OBVIOUS
<1>4. T # {}
  BY <1>3
<1>5. PICK k \in 1..n : \A j \in 1..n : Cardinality(Under(k)) <= Cardinality(Under(j))
  <2>1. PICK m \in T : \A y \in T : m <= y
    <3> HIDE DEF T
    <3> QED BY <1>2, <1>4, LeastNatural
  <2>2. PICK k \in 1..n : m = Cardinality(Under(k))
    OBVIOUS
  <2>3. \A j \in 1..n : Cardinality(Under(j)) \in T
    OBVIOUS
  <2>4. QED
    <3> HIDE DEF T, Under
    <3> QED BY <2>1, <2>2, <2>3
<1>6. SUFFICES ASSUME NEW j \in 1..n, ~(v[k] <= v[j]) PROVE FALSE
  OBVIOUS
<1>7. Under(j) \in SUBSET Under(k) /\ j \in Under(k) /\ j \notin Under(j)
  BY <1>6
<1>8. /\ Cardinality(Under(j)) <= Cardinality(Under(k))
      /\ Cardinality(Under(j)) # Cardinality(Under(k))
  <2> HIDE DEF Under
  <2> QED BY <1>1, <1>7, FS_Subset
<1>9. Cardinality(Under(k)) <= Cardinality(Under(j))
  BY <1>5
<1>10. QED
  <2> HIDE DEF Under
  <2> QED BY <1>1, <1>8, <1>9

\* The minimum clock_offset_correct searches for is one of the deque's values and at most
\* each of them.
LEMMA RollingMinIsLeast ==
  ASSUME NEW q \in Seq(Sample), q # <<>>
  PROVE  /\ RollingMin(q) \in {q[k].transfer : k \in 1..Len(q)}
         /\ \A k \in 1..Len(q) : RollingMin(q) <= q[k].transfer
<1>1. Len(q) \in Nat /\ Len(q) > 0
  BY EmptySeq, LenProperties
<1>2. ASSUME NEW k \in 1..Len(q) PROVE q[k].transfer \in Int
  <2>1. q[k] \in Sample
    BY ElementOfSeq
  <2>2. QED BY <2>1, WindowAssumption DEF Sample, WindowAssumption
<1> DEFINE v == [k \in 1..Len(q) |-> q[k].transfer]
<1>3. v \in [1..Len(q) -> Int] /\ \A k \in 1..Len(q) : v[k] = q[k].transfer
  BY <1>2
<1>4. PICK k \in 1..Len(q) : \A j \in 1..Len(q) : v[k] <= v[j]
  <2> HIDE DEF v
  <2> QED BY <1>1, <1>3, LeastValue
<1>5. \A j \in 1..Len(q) : q[k].transfer <= q[j].transfer
  BY <1>3, <1>4
<1>6. \E x \in {q[i].transfer : i \in 1..Len(q)} : \A j \in 1..Len(q) : x <= q[j].transfer
  BY <1>5
<1>7. QED BY <1>6 DEF RollingMin

-----------------------------------------------------------------------------
(* Expiry *)

\* The loop stops at a sample that has not expired, and all before it have.
LEMMA FirstKeptIsFirst ==
  ASSUME NEW q \in Seq(Sample), NEW l \in 1..Len(q), ~Expired(q[l])
  PROVE  /\ FirstKept(q) \in 1..Len(q)
         /\ ~Expired(q[FirstKept(q)])
         /\ \A j \in 1..FirstKept(q) - 1 : Expired(q[j])
<1>1. Len(q) \in Nat
  BY LenProperties
<1> DEFINE T == {k \in 1..Len(q) : ~Expired(q[k])}
<1>2. T \subseteq Nat /\ T # {}
  BY <1>1
<1>3. PICK k \in T : \A y \in T : k <= y
  BY <1>2, LeastNatural
<1>4. k \in 1..Len(q) /\ ~Expired(q[k])
  BY <1>3
<1>5. \A j \in 1..k - 1 : Expired(q[j])
  BY <1>1, <1>3
<1>6. QED BY <1>4, <1>5 DEF FirstKept

Ordered(q) == \A j, k \in 1..Len(q) : j < k => q[j].at <= q[k].at

\* What stays of the deque with the new sample: a run up to its end, the new sample included,
\* from the first that has not expired.
IsKept(q, new, full, f, kept) ==
  /\ full \in Seq(Sample) /\ f \in 1..Len(full)
  /\ kept \in Seq(Sample) /\ Len(kept) = Len(full) - f + 1
  /\ \A i \in 1..Len(kept) : f + i - 1 \in 1..Len(full) /\ kept[i] = full[f + i - 1]
  /\ ~Expired(full[f]) /\ \A j \in 1..f - 1 : Expired(full[j])
  /\ Len(full) = Len(q) + 1 /\ full[Len(full)] = new
  /\ \A j \in 1..Len(q) : full[j] = q[j]
  /\ kept # <<>> /\ kept[Len(kept)] = new

\* That is what Expire leaves.
LEMMA Kept ==
  ASSUME NEW q \in Seq(Sample), NEW new \in Sample, ~Expired(new)
  PROVE  IsKept(q, new, Append(q, new), FirstKept(Append(q, new)), Expire(Append(q, new)))
<1> DEFINE full == Append(q, new)
           f == FirstKept(full)
           kept == Expire(full)
<1>1. /\ full \in Seq(Sample) /\ Len(full) = Len(q) + 1 /\ Len(q) \in Nat
      /\ full[Len(full)] = new /\ \A j \in 1..Len(q) : full[j] = q[j]
  BY AppendProperties, LenProperties
<1>2. f \in 1..Len(full) /\ ~Expired(full[f]) /\ \A j \in 1..f - 1 : Expired(full[j])
  <2>1. Len(full) \in 1..Len(full)
    BY <1>1
  <2>2. QED BY <1>1, <2>1, FirstKeptIsFirst
<1> HIDE DEF full, f, kept
<1>3. \A i \in f..Len(full) : full[i] \in Sample
  <2>1. \A i \in f..Len(full) : i \in 1..Len(full)
    BY <1>1, <1>2
  <2>2. QED BY <1>1, <2>1, ElementOfSeq
<1>4. /\ kept \in Seq(Sample) /\ Len(kept) = Len(full) - f + 1
      /\ \A i \in 1..(Len(full) - f + 1) : kept[i] = full[f + i - 1]
  <2>1. kept = SubSeq(full, f, Len(full)) /\ f \in Int /\ Len(full) \in Int /\ f <= Len(full)
    BY <1>1, <1>2 DEF Expire, f, kept
  <2>2. /\ SubSeq(full, f, Len(full)) \in Seq(Sample)
        /\ Len(SubSeq(full, f, Len(full))) = IF f <= Len(full) THEN Len(full) - f + 1 ELSE 0
        /\ \A i \in 1..(Len(full) - f + 1) : SubSeq(full, f, Len(full))[i] = full[f + i - 1]
    BY <1>3, <2>1, SubSeqProperties
  <2>3. QED BY <2>1, <2>2
<1>5. ASSUME NEW i \in 1..Len(kept)
      PROVE  f + i - 1 \in 1..Len(full) /\ kept[i] = full[f + i - 1]
  <2>1. i \in 1..(Len(full) - f + 1) /\ f \in Nat /\ Len(full) \in Nat
    BY <1>1, <1>2, <1>4
  <2>2. f + i - 1 \in 1..Len(full)
    BY <1>2, <2>1
  <2>3. QED BY <1>4, <2>1, <2>2
<1>6. Len(kept) \in 1..Len(kept) /\ f + Len(kept) - 1 = Len(full)
  BY <1>1, <1>2, <1>4
<1>7. kept[Len(kept)] = new /\ kept # <<>>
  BY <1>1, <1>5, <1>6
<1>8. IsKept(q, new, full, f, kept)
  BY <1>1, <1>2, <1>4, <1>5, <1>7 DEF IsKept
<1>9. QED BY <1>8 DEF full, f, kept

-----------------------------------------------------------------------------
(* The inductive invariant *)

Typed ==
  /\ now \in 0..MaxTime
  /\ steady \in BOOLEAN
  /\ samples \in Seq(Sample)
  /\ seen \subseteq Sample
  /\ answer \in Int

\* While the clock goes forward: nothing is from the future, what is in the deque was
\* observed, it stands in the order of time, everything recent is in it, and so is what is
\* in the window of the latest observation, and nothing else.
Windowed ==
  /\ \A s \in seen : s.at <= now
  /\ \A k \in 1..Len(samples) : samples[k] \in seen
  /\ Ordered(samples)
  /\ \A s \in seen : now - s.at <= Window => \E k \in 1..Len(samples) : samples[k] = s
  /\ \A s \in InWindow : \E k \in 1..Len(samples) : samples[k] = s
  /\ \A k \in 1..Len(samples) : samples[k] \in InWindow

IInv ==
  /\ Typed
  /\ answer >= 0
  /\ samples = <<>> <=> seen = {}
  /\ steady => Windowed

\* An observation leaves the deque a window of what was observed: nothing recent is
\* lost, nothing else is kept.
LEMMA CorrectWindow ==
  ASSUME IInv, steady, NEW transfer \in Transfer, Correct(transfer)
  PROVE  Windowed' /\ \A k \in 1..Len(samples') : now - samples'[k].at <= Window
<1> DEFINE new == NewSample(transfer)
           full == Append(samples, new)
           kept == Expire(full)
           f == FirstKept(full)
<1>1. samples' = kept /\ seen' = seen \cup {new} /\ now' = now
  BY DEF Correct
<1>2. now \in Nat /\ Window \in Nat /\ Transfer \subseteq Int /\ samples \in Seq(Sample) /\ Windowed
      /\ seen \subseteq Sample
  BY WindowAssumption DEF WindowAssumption, IInv, Typed
<1>3. new \in Sample /\ new.at = now /\ ~Expired(new)
  BY <1>2 DEF Sample, NewSample, Expired
<1>4. /\ full \in Seq(Sample) /\ f \in 1..Len(full)
      /\ kept \in Seq(Sample) /\ Len(kept) = Len(full) - f + 1
      /\ \A i \in 1..Len(kept) : f + i - 1 \in 1..Len(full) /\ kept[i] = full[f + i - 1]
      /\ ~Expired(full[f]) /\ \A j \in 1..f - 1 : Expired(full[j])
      /\ Len(full) = Len(samples) + 1 /\ full[Len(full)] = new
      /\ \A j \in 1..Len(samples) : full[j] = samples[j]
      /\ kept # <<>> /\ kept[Len(kept)] = new
  <2> HIDE DEF new
  <2>1. IsKept(samples, new, full, f, kept)
    BY <1>2, <1>3, Kept
  <2> HIDE DEF full, kept, f
  <2>2. QED BY <2>1 DEF IsKept
<1> HIDE DEF new, full, kept, f
<1>5. Len(samples) \in Nat /\ Len(full) \in Nat
  BY <1>2, <1>4, LenProperties
<1>6. \A j \in 1..Len(full) : full[j] \in seen \cup {new} /\ full[j] \in Sample
                              /\ full[j].at \in Nat /\ full[j].at <= now
  <2>1. TAKE j \in 1..Len(full)
  <2>2. CASE j \in 1..Len(samples)
    <3>1. full[j] = samples[j] /\ samples[j] \in seen /\ samples[j].at <= now
      BY <1>2, <1>4, <2>2 DEF Windowed
    <3>2. samples[j] \in Sample
      BY <1>2, <3>1
    <3>3. QED BY <3>1, <3>2 DEF Sample
  <2>3. CASE j = Len(full)
    BY <1>2, <1>3, <1>4, <2>3
  <2>4. QED BY <1>4, <1>5, <2>2, <2>3
<1>7. Ordered(full)
  <2>1. SUFFICES ASSUME NEW j \in 1..Len(full), NEW k \in 1..Len(full), j < k
                 PROVE  full[j].at <= full[k].at
    BY DEF Ordered
  <2>2. j \in 1..Len(samples)
    BY <1>4, <1>5, <2>1
  <2>3. CASE k \in 1..Len(samples)
    BY <1>2, <1>4, <2>1, <2>2, <2>3 DEF Windowed, Ordered
  <2>4. CASE k = Len(full)
    BY <1>3, <1>4, <1>6, <2>4
  <2>5. QED BY <1>4, <1>5, <2>3, <2>4
<1>8. \A i \in 1..Len(kept) : kept[i] \in seen \cup {new} /\ kept[i].at <= now
  BY <1>4, <1>6
<1>9. Ordered(kept)
  <2>1. SUFFICES ASSUME NEW j \in 1..Len(kept), NEW k \in 1..Len(kept), j < k
                 PROVE  kept[j].at <= kept[k].at
    BY DEF Ordered
  <2>2. f + j - 1 < f + k - 1
    BY <1>4, <1>5, <2>1
  <2>3. QED BY <1>4, <1>7, <2>2 DEF Ordered
<1>10. \A i \in 1..Len(kept) : now - kept[i].at <= Window
  <2>1. TAKE i \in 1..Len(kept)
  <2>2. full[f].at <= full[f + i - 1].at
    <3>1. CASE i = 1
      <4>1. f + i - 1 = f
        BY <1>4, <1>5, <3>1
      <4>2. QED BY <1>4, <1>6, <4>1
    <3>2. CASE i # 1
      <4>1. f < f + i - 1
        BY <1>4, <1>5, <3>2
      <4>2. QED BY <1>4, <1>7, <4>1 DEF Ordered
    <3>3. QED BY <3>1, <3>2
  <2>3. now - full[f].at <= Window
    BY <1>2, <1>4, <1>6 DEF Expired
  <2>4. full[f].at \in Nat /\ full[f + i - 1].at \in Nat /\ kept[i] = full[f + i - 1]
    BY <1>4, <1>6
  <2>5. now \in Nat /\ Window \in Nat
    BY <1>2
  <2>6. QED BY <2>2, <2>3, <2>4, <2>5
<1>11. \A s \in seen \cup {new} : now - s.at <= Window => \E k \in 1..Len(kept) : kept[k] = s
  <2>1. SUFFICES ASSUME NEW s \in seen, now - s.at <= Window
                 PROVE  \E k \in 1..Len(kept) : kept[k] = s
    <3>1. Len(kept) \in 1..Len(kept)
      BY <1>4, <1>5
    <3>2. QED BY <1>4, <3>1
  <2>2. PICK k \in 1..Len(samples) : samples[k] = s
    BY <1>2, <2>1 DEF Windowed
  <2>3. full[k] = s /\ k \in 1..Len(full)
    BY <1>4, <1>5, <2>2
  <2>4. ~Expired(full[k])
    <3>1. s.at \in Nat
      BY <1>2, <2>1 DEF Sample
    <3>2. QED BY <1>2, <2>1, <2>3, <3>1 DEF Expired
  <2>5. ~(k \in 1..f - 1)
    BY <1>4, <2>4
  <2>6. k - f + 1 \in 1..Len(kept) /\ f + (k - f + 1) - 1 = k
    BY <1>4, <1>5, <2>3, <2>5
  <2>7. kept[k - f + 1] = s
    BY <1>4, <2>3, <2>6
  <2>8. QED BY <2>6, <2>7
<1>12. Windowed'
  <2>1. \A s \in seen' : s.at <= now'
    BY <1>1, <1>2, <1>3 DEF Windowed
  <2>2. \A k \in 1..Len(samples') : samples'[k] \in seen'
    BY <1>1, <1>8
  <2>3. Ordered(samples')
    BY <1>1, <1>9
  <2>4. \A s \in seen' : now' - s.at <= Window => \E k \in 1..Len(samples') : samples'[k] = s
    BY <1>1, <1>11
  <2>5. new \in seen' /\ \A s \in seen' : s.at \in Nat /\ s.at <= now
    BY <1>1, <1>2, <1>3 DEF Windowed, Sample
  <2>6. ASSUME NEW s \in InWindow'
        PROVE  \E k \in 1..Len(samples') : samples'[k] = s
    <3>1. s \in seen' /\ new.at - s.at <= Window
      BY <2>5 DEF InWindow
    <3>2. QED BY <1>1, <1>3, <2>4, <3>1
  <2>7. ASSUME NEW k \in 1..Len(samples')
        PROVE  samples'[k] \in InWindow'
    <3>1. samples'[k] \in seen' /\ now - samples'[k].at <= Window
      BY <1>1, <1>10, <2>2
    <3>2. \A t \in seen' : t.at - samples'[k].at <= Window
      BY <1>2, <2>5, <3>1
    <3>3. QED BY <3>1, <3>2 DEF InWindow
  <2>8. QED BY <2>1, <2>2, <2>3, <2>4, <2>6, <2>7 DEF Windowed, Ordered
<1>13. QED BY <1>1, <1>10, <1>12

\* An observation answers with what its sample exceeds the deque's least one by, which is
\* never negative: the sample itself is in the deque.
LEMMA CorrectAnswer ==
  ASSUME Typed, NEW transfer \in Transfer, Correct(transfer)
  PROVE  /\ samples' \in Seq(Sample) /\ samples' # <<>>
         /\ seen' \subseteq Sample /\ seen' # {}
         /\ answer' = transfer - RollingMin(samples')
         /\ RollingMin(samples') \in {samples'[k].transfer : k \in 1..Len(samples')}
         /\ \A k \in 1..Len(samples') : RollingMin(samples') <= samples'[k].transfer
         /\ answer' \in Int /\ answer' >= 0
<1> DEFINE new == NewSample(transfer)
<1>1. now \in Nat /\ Window \in Nat /\ Transfer \subseteq Int /\ samples \in Seq(Sample)
  BY WindowAssumption DEF WindowAssumption, Typed
<1>2. new \in Sample /\ new.transfer = transfer /\ ~Expired(new)
  BY <1>1 DEF Sample, NewSample, Expired
<1>3. /\ samples' = Expire(Append(samples, new)) /\ seen' = seen \cup {new}
      /\ answer' = transfer - RollingMin(samples')
  BY DEF Correct
<1> HIDE DEF new
<1>4. IsKept(samples, new, Append(samples, new), FirstKept(Append(samples, new)), samples')
  BY <1>1, <1>2, <1>3, Kept
<1>5. samples' \in Seq(Sample) /\ samples' # <<>> /\ samples'[Len(samples')] = new
  BY <1>4 DEF IsKept
<1>6. Len(samples') \in 1..Len(samples')
  BY <1>5, EmptySeq
<1>7. /\ RollingMin(samples') \in {samples'[k].transfer : k \in 1..Len(samples')}
      /\ \A k \in 1..Len(samples') : RollingMin(samples') <= samples'[k].transfer
  BY <1>5, RollingMinIsLeast
<1>8. RollingMin(samples') \in Int /\ RollingMin(samples') <= transfer
  <2>1. \A k \in 1..Len(samples') : samples'[k] \in Sample
    BY <1>5, ElementOfSeq
  <2>2. \A k \in 1..Len(samples') : samples'[k].transfer \in Int
    BY <1>1, <2>1 DEF Sample
  <2>3. QED BY <1>2, <1>5, <1>6, <1>7, <2>2
<1>9. answer' \in Int /\ answer' >= 0
  BY <1>1, <1>3, <1>8
<1>10. seen' \subseteq Sample /\ seen' # {}
  BY <1>2, <1>3 DEF Typed
<1>11. QED BY <1>3, <1>5, <1>7, <1>9, <1>10

\* The first state.
LEMMA InitIInv == Init => IInv
<1> SUFFICES ASSUME Init PROVE IInv
  OBVIOUS
<1>1. <<>> \in Seq(Sample) /\ Len(<<>>) = 0
  OBVIOUS
<1>2. 0 \in 0..MaxTime
  BY WindowAssumption DEF WindowAssumption
<1>3. Typed
  BY <1>1, <1>2 DEF Init, Typed
<1>4. Windowed
  BY <1>1 DEF Init, Windowed, Ordered, InWindow
<1>5. QED BY <1>3, <1>4 DEF Init, IInv

\* Every step preserves the inductive invariant.
LEMMA NextIInv == IInv /\ [Next]_vars => IInv'
<1> SUFFICES ASSUME IInv, [Next]_vars PROVE IInv'
  OBVIOUS
<1>1. /\ now \in Int /\ MaxTime \in Nat /\ Window \in Nat
      /\ \A s \in Sample : s.at \in Nat
      /\ seen \subseteq Sample
  BY WindowAssumption DEF IInv, Typed, WindowAssumption, Sample
<1>2. CASE Pass
  <2>1. now' \in 0..MaxTime /\ now < now'
    BY <1>1, <1>2 DEF Pass, IInv, Typed
  <2>2. UNCHANGED <<steady, samples, seen, answer>>
    BY <1>2 DEF Pass
  <2>3. Typed'
    BY <2>1, <2>2 DEF IInv, Typed
  <2>4. ASSUME steady PROVE Windowed'
    <3>1. Windowed /\ now' \in Int
      BY <2>1, <2>4 DEF IInv
    <3>2. \A s \in seen : s.at <= now' /\ (now' - s.at <= Window => now - s.at <= Window)
      BY <1>1, <2>1, <3>1 DEF Windowed
    <3>3. QED BY <2>2, <3>1, <3>2 DEF Windowed, Ordered, InWindow
  <2>5. QED BY <2>2, <2>3, <2>4 DEF IInv
<1>3. CASE SetBack
  <2>1. now' \in 0..MaxTime /\ UNCHANGED <<samples, seen, answer>>
    BY <1>1, <1>3 DEF SetBack, IInv, Typed
  <2>2. steady' = (steady /\ samples = <<>>)
    BY <1>3 DEF SetBack
  <2>3. steady' \in BOOLEAN /\ (steady' => samples = <<>>)
    BY <2>2
  <2>4. Typed'
    BY <2>1, <2>3 DEF IInv, Typed
  <2>5. ASSUME steady' PROVE Windowed'
    <3>1. samples' = <<>> /\ seen' = {}
      BY <2>1, <2>3, <2>5 DEF IInv
    <3>2. Len(samples') = 0
      BY <3>1
    <3>3. QED BY <3>1, <3>2 DEF Windowed, Ordered, InWindow
  <2>6. QED BY <2>1, <2>4, <2>5 DEF IInv
<1>4. CASE Reset
  <2>1. samples' = <<>> /\ seen' = {} /\ steady' = TRUE /\ UNCHANGED <<now, answer>>
    BY <1>4 DEF Reset
  <2>2. <<>> \in Seq(Sample) /\ Len(<<>>) = 0
    OBVIOUS
  <2>3. Typed'
    BY <2>1, <2>2 DEF IInv, Typed
  <2>4. Windowed'
    BY <2>1, <2>2 DEF Windowed, Ordered, InWindow
  <2>5. QED BY <2>1, <2>3, <2>4 DEF IInv
<1>5. ASSUME NEW transfer \in Transfer, Correct(transfer) PROVE IInv'
  <2>1. UNCHANGED <<now, steady>>
    BY <1>5 DEF Correct
  <2>2. /\ samples' \in Seq(Sample) /\ samples' # <<>> /\ seen' \subseteq Sample /\ seen' # {}
        /\ answer' \in Int /\ answer' >= 0
    BY <1>5, CorrectAnswer DEF IInv
  <2>3. Typed'
    BY <2>1, <2>2 DEF IInv, Typed
  <2>4. steady' => Windowed'
    BY <1>5, <2>1, CorrectWindow
  <2>5. QED BY <2>2, <2>3, <2>4 DEF IInv
<1>6. CASE UNCHANGED vars
  BY <1>6 DEF vars, IInv, Typed, Windowed, Ordered, InWindow
<1>7. QED BY <1>2, <1>3, <1>4, <1>5, <1>6 DEF Next

\* The inductive invariant holds in every reachable state.
THEOREM Inductive == Spec => []IInv
BY InitIInv, NextIInv, PTL DEF Spec

\* The variables have their types, for any window and any length of the deque.
THEOREM TypeCorrect == Spec => []TypeOK
<1>1. IInv => TypeOK
  BY DEF IInv, Typed, TypeOK, Sample
<1>2. QED BY Inductive, <1>1, PTL

\* NeverNegative: no corrected transfer time is negative, even when the clock is set back.
THEOREM CorrectedNeverNegative == Spec => []NeverNegative
<1>1. IInv => NeverNegative
  BY DEF IInv, NeverNegative
<1>2. QED BY Inductive, <1>1, PTL

\* WindowComplete: as long as the clock goes forward, the deque holds the observations of
\* the window that ends with the latest one, all of them and no other, in the order of time.
THEOREM DequeIsWindow == Spec => []WindowComplete
<1>1. ASSUME Windowed PROVE {samples[k] : k \in 1..Len(samples)} = InWindow
  BY <1>1 DEF Windowed
<1>2. IInv => WindowComplete
  BY <1>1 DEF IInv, Windowed, Ordered, WindowComplete
<1>3. QED BY Inductive, <1>2, PTL

-----------------------------------------------------------------------------
(* Refinement *)

\* The least of the recent samples is the least of the deque.
LEMMA LeastIsRollingMin ==
  ASSUME NEW R, R \subseteq Sample, NEW q \in Seq(Sample), q # <<>>,
         \A k \in 1..Len(q) : q[k] \in R,
         \A s \in R : \E k \in 1..Len(q) : q[k] = s
  PROVE  Promise!Least(R) = RollingMin(q)
<1>1. /\ RollingMin(q) \in {q[k].transfer : k \in 1..Len(q)}
      /\ \A k \in 1..Len(q) : RollingMin(q) <= q[k].transfer
  BY RollingMinIsLeast
<1>2. RollingMin(q) \in {s.transfer : s \in R} /\ \A s \in R : RollingMin(q) <= s.transfer
  BY <1>1
<1>3. \A s \in R : s.transfer \in Int
  BY WindowAssumption DEF WindowAssumption, Sample
<1>4. \A x \in {s.transfer : s \in R} : (\A s \in R : x <= s.transfer) => x = RollingMin(q)
  BY <1>2, <1>3
<1>5. QED BY <1>2, <1>4 DEF Promise!Least

\* Every step is a step of RollingMinimum, or changes nothing it sees.
LEMMA PromiseStep == IInv /\ [Next]_vars => [Promise!Next]_(Promise!vars)
<1> SUFFICES ASSUME IInv, [Next]_vars PROVE [Promise!Next]_(Promise!vars)
  OBVIOUS
<1>1. CASE Pass
  BY <1>1 DEF Pass, Promise!Tick, Promise!Next
<1>2. CASE SetBack
  <2>1. samples = <<>> <=> seen = {}
    BY DEF IInv
  <2>2. QED BY <1>2, <2>1 DEF SetBack, Promise!SetBack, Promise!Next
<1>3. CASE Reset
  BY <1>3 DEF Reset, Promise!Reset, Promise!Next
<1>4. ASSUME NEW transfer \in Transfer, Correct(transfer) PROVE Promise!Next
  <2>1. /\ samples' \in Seq(Sample) /\ samples' # <<>> /\ seen' \subseteq Sample
        /\ answer' = transfer - RollingMin(samples') /\ answer' \in Int /\ answer' >= 0
    BY <1>4, CorrectAnswer DEF IInv
  <2>2. seen' = seen \cup {[at |-> now, transfer |-> transfer]} /\ UNCHANGED <<now, steady>>
    BY <1>4 DEF Correct, NewSample
  <2>3. ASSUME steady PROVE RollingMin(samples') = Promise!Least(Promise!Recent(seen', now))
    <3>1. Windowed' /\ \A k \in 1..Len(samples') : now - samples'[k].at <= Window
      BY <1>4, <2>3, CorrectWindow
    <3>2. Promise!Recent(seen', now) \subseteq Sample
      BY <2>1 DEF Promise!Recent
    <3>3. \A k \in 1..Len(samples') : samples'[k] \in Promise!Recent(seen', now)
      BY <3>1 DEF Windowed, Promise!Recent
    <3>4. \A s \in Promise!Recent(seen', now) : \E k \in 1..Len(samples') : samples'[k] = s
      BY <2>2, <3>1 DEF Windowed, Promise!Recent
    <3>5. QED BY <2>1, <3>2, <3>3, <3>4, LeastIsRollingMin
  <2>4. Promise!Observe(transfer)
    BY <2>1, <2>2, <2>3 DEF Promise!Observe
  <2>5. QED BY <2>4 DEF Promise!Next
<1>5. CASE UNCHANGED vars
  BY <1>5 DEF vars, Promise!vars
<1>6. QED BY <1>1, <1>2, <1>3, <1>4, <1>5 DEF Next

\* ImplementsRollingMinimum: the deque answers as if all samples of the window had been
\* searched, for any window, transfer times and length of the deque.
THEOREM Implements == Spec => ImplementsRollingMinimum
<1>1. Init => Promise!Init
  BY DEF Init, Promise!Init
<1>2. QED BY Inductive, <1>1, PromiseStep, PTL DEF Spec, ImplementsRollingMinimum, Promise!Spec
===========================================================================
