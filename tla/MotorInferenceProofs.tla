------------------------- MODULE MotorInferenceProofs -------------------------
(***************************************************************************)
(* Proofs about MotorInference, for any length of the window, distance of  *)
(* anchors, positions and predictions: its type invariant, and that the    *)
(* window, the filter's output and the model's state come from the present *)
(* session alone.                                                          *)
(*                                                                         *)
(* The window and the output are only as good as what they are made of, so *)
(* the induction is about the history and the two stages of the filter.    *)
(***************************************************************************)
EXTENDS MotorInference, RunningSumProofs, SequenceTheorems, TLAPS

\* A history of anchors of session s, at whose n-th sample it is: none is the first sample,
\* and they are in the order of time.
IsHistory(h, s, n) ==
  /\ \A i \in 1..Len(h) : h[i].session = s /\ h[i].no \in 2..n
  /\ \A i, j \in 1..Len(h) : i < j => h[i].no < h[j].no

HistoryInv == Len(hist) <= SeqLen - 1 /\ IsHistory(hist, session, Len(path))

\* What a session has at its start.
StartInv ==
  /\ hasFirst <=> path # <<>>
  /\ hasFirst => first.session = session /\ first.no = 1
  /\ ~hasFirst => accum = 0 /\ hist = <<>>
  /\ status = "new" => session = 0 /\ path = <<>>

\* v lies among the predictions P.
Among(v, P) == \E a, b \in P : a <= v /\ v <= b

FilterInv == seeded => Among(y[1], predicted) /\ Among(y[2], predicted)

IInv == /\ TypeOK /\ HistoryInv /\ StartInv /\ FilterInv
        /\ WindowOfSession /\ OutputWithinSession /\ ModelOfOneSession

-----------------------------------------------------------------------------
(* What the operators do. *)

\* A distance is a natural number.
LEMMA AbsNat == \A n \in Int : Abs(n) \in Nat
BY DEF Abs

\* q is h with c behind it, without its first element if d is 1.
IsMoved(q, h, c, d) ==
  /\ Len(q) = Len(h) + 1 - d
  /\ \A i \in 1..Len(q) : q[i] = IF i + d <= Len(h) THEN h[i + d] ELSE c

\* LastOf keeps the last n of at most n elements and one more.
LEMMA LastOfAppend ==
  ASSUME NEW S, NEW h \in Seq(S), NEW c \in S, NEW n \in Nat, Len(h) <= n
  PROVE  LET q == LastOf(Append(h, c), n) IN
         /\ q \in Seq(S) /\ Len(q) <= n
         /\ \E d \in 0..1 : IsMoved(q, h, c, d) /\ (d = 1 <=> Len(h) = n)
<1> DEFINE a == Append(h, c)
           q == LastOf(a, n)
<1>1. Len(h) \in Nat
  BY LenProperties
<1>2. /\ a \in Seq(S) /\ a # <<>> /\ Len(a) = Len(h) + 1
      /\ \A i \in 1..Len(h) : a[i] = h[i]
      /\ a[Len(h) + 1] = c
  BY AppendProperties
<1>3. /\ Tail(a) \in Seq(S) /\ Len(Tail(a)) = Len(a) - 1
      /\ \A i \in 1..Len(Tail(a)) : Tail(a)[i] = a[i + 1]
  BY <1>2, HeadTailProperties
<1> HIDE DEF a
<1>4. CASE Len(a) > n
  <2>1. q = Tail(a)
    BY <1>4 DEF LastOf
  <2> HIDE DEF q
  <2>2. q \in Seq(S) /\ Len(q) <= n /\ Len(q) = Len(h) + 1 - 1
    BY <1>1, <1>2, <1>3, <2>1
  <2>3. ASSUME NEW i \in 1..Len(q) PROVE q[i] = IF i + 1 <= Len(h) THEN h[i + 1] ELSE c
    <3>1. q[i] = a[i + 1]
      BY <1>3, <2>1
    <3>2. CASE i + 1 <= Len(h)
      BY <1>1, <1>2, <3>1, <3>2
    <3>3. CASE ~(i + 1 <= Len(h))
      <4>1. i + 1 = Len(h) + 1
        BY <1>1, <2>2, <3>3
      <4>2. QED BY <1>2, <3>1, <3>3, <4>1
    <3>4. QED BY <3>2, <3>3
  <2>4. IsMoved(q, h, c, 1)
    BY <2>2, <2>3 DEF IsMoved
  <2>5. Len(h) = n
    BY <1>1, <1>2, <1>4
  <2>6. QED BY <2>2, <2>4, <2>5 DEF q, a
<1>5. CASE ~(Len(a) > n)
  <2>1. q = a
    BY <1>5 DEF LastOf
  <2> HIDE DEF q
  <2>2. q \in Seq(S) /\ Len(q) <= n /\ Len(q) = Len(h) + 1 - 0
    BY <1>1, <1>2, <1>5, <2>1
  <2>3. ASSUME NEW i \in 1..Len(q) PROVE q[i] = IF i + 0 <= Len(h) THEN h[i + 0] ELSE c
    <3>1. CASE i <= Len(h)
      BY <1>1, <1>2, <2>1, <3>1
    <3>2. CASE ~(i <= Len(h))
      <4>1. i = Len(h) + 1
        BY <1>1, <2>2, <3>2
      <4>2. QED BY <1>1, <1>2, <2>1, <3>2, <4>1
    <3>3. QED BY <3>1, <3>2
  <2>4. IsMoved(q, h, c, 0)
    BY <2>2, <2>3 DEF IsMoved
  <2>5. Len(h) # n
    BY <1>1, <1>2, <1>5
  <2>6. QED BY <2>2, <2>4, <2>5 DEF q, a
<1>6. QED BY <1>1, <1>2, <1>4, <1>5

\* A history stays one when the sample that has just come becomes an anchor, unless it is
\* the session's first.
LEMMA HistoryGrows ==
  ASSUME NEW h \in Seq(Sample), NEW c \in Sample, NEW n \in Nat, Len(h) <= n,
         NEW s, NEW m \in Nat \ {0}, IsHistory(h, s, m), c.session = s, c.no = m + 1
  PROVE  LET q == LastOf(Append(h, c), n) IN
         q \in Seq(Sample) /\ Len(q) <= n /\ IsHistory(q, s, m + 1)
<1> DEFINE q == LastOf(Append(h, c), n)
<1>1. q \in Seq(Sample) /\ Len(q) <= n /\ \E d \in 0..1 : IsMoved(q, h, c, d)
  BY LastOfAppend
<1>2. PICK d \in 0..1 : /\ Len(q) = Len(h) + 1 - d
                        /\ \A i \in 1..Len(q) : q[i] = IF i + d <= Len(h) THEN h[i + d] ELSE c
  BY <1>1 DEF IsMoved
<1>3. Len(h) \in Nat /\ Len(q) \in Nat
  BY <1>1, LenProperties
<1> HIDE DEF q
<1>4. ASSUME NEW i \in 1..Len(q)
      PROVE  \/ i + d \in 1..Len(h) /\ q[i] = h[i + d]
             \/ i + d = Len(h) + 1 /\ q[i] = c
  BY <1>2, <1>3
<1>5. ASSUME NEW i \in 1..Len(q) PROVE q[i].session = s /\ q[i].no \in 2..(m + 1)
  <2>1. CASE i + d \in 1..Len(h) /\ q[i] = h[i + d]
    <3>1. h[i + d].session = s /\ h[i + d].no \in 2..m
      BY <2>1 DEF IsHistory
    <3>2. QED BY <2>1, <3>1
  <2>2. CASE q[i] = c
    BY <2>2
  <2>3. QED BY <1>4, <2>1, <2>2
<1>6. ASSUME NEW i \in 1..Len(q), NEW j \in 1..Len(q), i < j PROVE q[i].no < q[j].no
  <2>1. i + d < j + d /\ i + d \in 1..Len(h) /\ q[i] = h[i + d]
    BY <1>2, <1>3, <1>4, <1>6
  <2>2. h[i + d].no \in 2..m
    BY <2>1 DEF IsHistory
  <2>3. CASE j + d \in 1..Len(h) /\ q[j] = h[j + d]
    BY <2>1, <2>3 DEF IsHistory
  <2>4. CASE q[j] = c
    BY <2>1, <2>2, <2>4
  <2>5. QED BY <1>4, <2>3, <2>4
<1>7. QED BY <1>1, <1>5, <1>6 DEF IsHistory, q

\* What Build makes of a history: padding, then the history, then the current sample.
LEMMA WindowParts ==
  ASSUME NEW S, NEW a \in S, NEW h \in Seq(S), NEW c \in S, NEW m \in Nat, Len(h) <= m
  PROVE  LET k == m - Len(h)
             w == [i \in 1..m - Len(h) |-> a] \o h \o <<c>>
         IN /\ w \in Seq(S) /\ Len(w) = m + 1 /\ w[m + 1] = c
            /\ \A i \in 1..m : w[i] = IF i <= k THEN a ELSE h[i - k]
<1> DEFINE k == m - Len(h)
           p == [i \in 1..m - Len(h) |-> a]
           ph == p \o h
           w == ph \o <<c>>
<1>1. Len(h) \in Nat /\ k \in Nat
  BY LenProperties
<1>2. p \in Seq(S)
  <2>1. p \in [1..k -> S]
    OBVIOUS
  <2> HIDE DEF p, k
  <2>2. QED BY <1>1, <2>1
<1>3. Len(p) = k /\ \A i \in 1..k : p[i] = a
  BY <1>1
<1> HIDE DEF p
<1>4. /\ ph \in Seq(S) /\ Len(ph) = Len(p) + Len(h)
      /\ \A i \in 1..Len(p) + Len(h) : ph[i] = IF i <= Len(p) THEN p[i] ELSE h[i - Len(p)]
  BY <1>2, ConcatProperties
<1>5. Len(ph) = m
  BY <1>1, <1>3, <1>4
<1> HIDE DEF ph
<1> DEFINE t == <<c>>
<1>6. t \in Seq(S) /\ Len(t) = 1 /\ t[1] = c
  OBVIOUS
<1>7. /\ w \in Seq(S) /\ Len(w) = Len(ph) + 1
      /\ \A i \in 1..Len(ph) + 1 : w[i] = IF i <= Len(ph) THEN ph[i] ELSE t[i - Len(ph)]
  <2> HIDE DEF t
  <2>1. /\ ph \o t \in Seq(S) /\ Len(ph \o t) = Len(ph) + Len(t)
        /\ \A i \in 1..Len(ph) + Len(t) :
             (ph \o t)[i] = IF i <= Len(ph) THEN ph[i] ELSE t[i - Len(ph)]
    <3>1. ph \in Seq(S) /\ t \in Seq(S)
      BY <1>4, <1>6
    <3>2. QED BY <3>1, ConcatProperties
  <2>2. w = ph \o t
    BY DEF t
  <2> HIDE DEF w
  <2>3. QED BY <1>6, <2>1, <2>2
<1>8. w \in Seq(S) /\ Len(w) = m + 1
  BY <1>5, <1>7
<1>9. w[m + 1] = c
  <2>1. m + 1 \in 1..Len(ph) + 1 /\ ~(m + 1 <= Len(ph)) /\ m + 1 - Len(ph) = 1
    BY <1>5
  <2>2. w[m + 1] = t[m + 1 - Len(ph)]
    BY <1>7, <2>1
  <2>3. QED BY <1>6, <2>1, <2>2
<1>10. ASSUME NEW i \in 1..m PROVE w[i] = IF i <= k THEN a ELSE h[i - k]
  <2>1. w[i] = ph[i]
    BY <1>5, <1>7
  <2>2. ph[i] = IF i <= k THEN p[i] ELSE h[i - k]
    <3>1. i \in 1..Len(p) + Len(h)
      BY <1>4, <1>5
    <3>2. ph[i] = IF i <= Len(p) THEN p[i] ELSE h[i - Len(p)]
      BY <1>4, <3>1
    <3>3. Len(p) = k
      BY <1>3
    <3> HIDE DEF k
    <3>4. QED BY <3>2, <3>3
  <2>3. i <= k => p[i] = a
    BY <1>1, <1>3
  <2> HIDE DEF k, w
  <2>4. QED BY <2>1, <2>2, <2>3
<1>11. QED BY <1>8, <1>9, <1>10 DEF ph, p

\* A window of SeqLen samples, built at the n-th sample of session s.
IsWindow(w, s, n) ==
  /\ Len(w) = SeqLen
  /\ w[SeqLen].no = n
  /\ \A i \in 1..SeqLen : w[i].session = s
  /\ \A i, j \in 1..SeqLen :
       /\ i < j => w[i].no <= w[j].no
       /\ i # j /\ w[i].no = w[j].no => w[i].no = 1

\* A window is of its session if history, first and current sample are.
LEMMA WindowBuilt ==
  ASSUME NEW f \in Sample, NEW h \in Seq(Sample), NEW c \in Sample, NEW s, NEW n \in Nat,
         Len(h) <= SeqLen - 1, IsHistory(h, s, n),
         f.session = s, f.no = 1, c.session = s, c.no = n + 1
  PROVE  LET w == [i \in 1..(SeqLen - 1) - Len(h) |-> f] \o h \o <<c>>
         IN w \in Seq(Sample) /\ IsWindow(w, s, n + 1)
<1> DEFINE m == SeqLen - 1
           k == m - Len(h)
           w == [i \in 1..m - Len(h) |-> f] \o h \o <<c>>
<1>1. m \in Nat /\ m + 1 = SeqLen
  BY PipelineAssumption DEF PipelineAssumption
<1>2. Len(h) \in Nat /\ k \in Nat
  BY <1>1, LenProperties
<1>3. /\ w \in Seq(Sample) /\ Len(w) = m + 1 /\ w[m + 1] = c
      /\ \A i \in 1..m : w[i] = IF i <= k THEN f ELSE h[i - k]
  <2>1. Len(h) <= m
    OBVIOUS
  <2> HIDE DEF m
  <2>2. QED BY <1>1, <2>1, WindowParts
<1> HIDE DEF w, m
<1>4. ASSUME NEW i \in 1..SeqLen
      PROVE  \/ i <= k /\ w[i] = f
             \/ k < i /\ i <= m /\ i - k \in 1..Len(h) /\ w[i] = h[i - k]
             \/ i = m + 1 /\ w[i] = c
  BY <1>1, <1>2, <1>3
<1>5. \A i \in 1..Len(h) : h[i].session = s /\ h[i].no \in 2..n
  BY DEF IsHistory
<1>6. ASSUME NEW i \in 1..SeqLen PROVE w[i].session = s
  BY <1>4, <1>5
<1>7. ASSUME NEW i \in 1..SeqLen, NEW j \in 1..SeqLen, i < j
      PROVE  w[i].no <= w[j].no /\ (w[i].no = w[j].no => w[i].no = 1)
  <2>1. CASE i <= k /\ w[i] = f
    <3>1. CASE w[j] = f
      BY <2>1, <3>1
    <3>2. CASE j - k \in 1..Len(h) /\ w[j] = h[j - k]
      <4>1. h[j - k].no \in 2..n
        BY <1>5, <3>2
      <4>2. QED BY <2>1, <3>2, <4>1
    <3>3. CASE w[j] = c
      BY <2>1, <3>3
    <3>4. QED BY <1>4, <3>1, <3>2, <3>3
  <2>2. CASE k < i /\ i <= m /\ i - k \in 1..Len(h) /\ w[i] = h[i - k]
    <3>1. h[i - k].no \in 2..n
      BY <1>5, <2>2
    <3>2. CASE j - k \in 1..Len(h) /\ w[j] = h[j - k]
      <4>1. i - k < j - k
        BY <1>2, <1>7
      <4>2. h[i - k].no < h[j - k].no
        BY <2>2, <3>2, <4>1 DEF IsHistory
      <4>3. h[j - k].no \in 2..n
        BY <1>5, <3>2
      <4>4. QED BY <2>2, <3>1, <3>2, <4>2, <4>3
    <3>3. CASE w[j] = c
      BY <2>2, <3>1, <3>3
    <3>4. ~(j <= k)
      BY <1>2, <1>7, <2>2
    <3>5. QED BY <1>4, <3>2, <3>3, <3>4
  <2>3. CASE i = m + 1
    BY <1>1, <1>7, <2>3
  <2>4. QED BY <1>4, <2>1, <2>2, <2>3
<1>8. \A i, j \in 1..SeqLen :
        /\ i < j => w[i].no <= w[j].no
        /\ i # j /\ w[i].no = w[j].no => w[i].no = 1
  <2>1. SUFFICES ASSUME NEW i \in 1..SeqLen, NEW j \in 1..SeqLen
                 PROVE  /\ i < j => w[i].no <= w[j].no
                        /\ i # j /\ w[i].no = w[j].no => w[i].no = 1
    OBVIOUS
  <2>2. i < j \/ j < i \/ i = j
    OBVIOUS
  <2>3. CASE i < j
    BY <1>7, <2>3
  <2>4. CASE j < i
    <3>1. ~(i < j)
      BY <2>4
    <3>2. w[j].no = w[i].no => w[j].no = 1
      BY <1>7, <2>4
    <3>3. QED BY <3>1, <3>2
  <2>5. CASE i = j
    BY <2>5
  <2>6. QED BY <2>2, <2>3, <2>4, <2>5
<1>9. IsWindow(w, s, n + 1)
  BY <1>1, <1>3, <1>6, <1>8 DEF IsWindow
<1>10. QED BY <1>3, <1>9 DEF w, m

-----------------------------------------------------------------------------
(* The invariant. *)

\* The first state.
LEMMA InitIInv == Init => IInv
<1> SUFFICES ASSUME Init PROVE IInv
  OBVIOUS
<1>1. NoSample \in Sample
  BY PipelineAssumption DEF PipelineAssumption, NoSample, Sample
<1>2. hist \in Seq(Sample) /\ window \in Seq(Sample) /\ path \in Seq(Position) /\ Len(hist) = 0
  BY EmptySeq DEF Init
<1>3. TypeOK
  <2>1. y \in Int \X Int /\ accum \in Nat /\ session \in 0..MaxSessions
    BY PipelineAssumption DEF PipelineAssumption, Init
  <2>2. /\ status \in {"new", "ready", "failed"} /\ hasFirst \in BOOLEAN /\ seeded \in BOOLEAN
        /\ lstm = {} /\ output = {} /\ predicted = {} /\ first = NoSample /\ prev = NoSample
    BY DEF Init
  <2>3. QED BY <1>1, <1>2, <2>1, <2>2 DEF TypeOK
<1>4. HistoryInv
  BY <1>2, PipelineAssumption DEF PipelineAssumption, HistoryInv, IsHistory
<1>5. StartInv /\ FilterInv /\ WindowOfSession /\ OutputWithinSession /\ ModelOfOneSession
  BY DEF Init, StartInv, FilterInv, WindowOfSession, OutputWithinSession, ModelOfOneSession
<1>6. QED BY <1>3, <1>4, <1>5 DEF IInv

\* The initialisation: there is no session yet.
LEMMA InitializeStep == ASSUME IInv, NEW npu \in BOOLEAN, Initialize(npu) PROVE IInv'
<1>1. session = 0 /\ path = <<>>
  BY DEF Initialize, IInv, StartInv
<1>2. WarmedUp(npu) \subseteq 0..MaxSessions
  BY PipelineAssumption DEF PipelineAssumption, WarmedUp
<1>3. hist' = <<>> /\ hist' \in Seq(Sample) /\ Len(hist') = 0
  BY EmptySeq DEF Initialize
<1>4. TypeOK'
  BY <1>2, <1>3 DEF Initialize, IInv, TypeOK
<1>5. HistoryInv'
  BY <1>3, PipelineAssumption DEF PipelineAssumption, HistoryInv, IsHistory
<1>6. StartInv'
  BY <1>1, <1>3 DEF Initialize, StartInv
<1>7. FilterInv' /\ WindowOfSession' /\ OutputWithinSession' /\ ModelOfOneSession'
  BY <1>1 DEF Initialize, FilterInv, WindowOfSession, OutputWithinSession, ModelOfOneSession
<1>8. QED BY <1>4, <1>5, <1>6, <1>7 DEF IInv

\* A reset begins a session without samples.
LEMMA ResetStep == ASSUME IInv, Reset PROVE IInv'
<1>1. /\ status' = status /\ status = "ready" /\ session' = session + 1 /\ session < MaxSessions
      /\ path' = <<>> /\ predicted' = {} /\ lstm' = {} /\ seeded' = FALSE
      /\ hist' = <<>> /\ hasFirst' = FALSE /\ accum' = 0
      /\ UNCHANGED <<first, prev, window, y, output>>
  BY DEF Reset, ResetVariableTensors, HistoryReset
<1>2. hist' \in Seq(Sample) /\ Len(hist') = 0 /\ path' \in Seq(Position)
  BY <1>1, EmptySeq
<1>3. session' \in 0..MaxSessions
  BY <1>1, PipelineAssumption DEF PipelineAssumption, IInv, TypeOK
<1>4. TypeOK'
  BY <1>1, <1>2, <1>3 DEF IInv, TypeOK
<1>5. HistoryInv'
  BY <1>2, PipelineAssumption DEF PipelineAssumption, HistoryInv, IsHistory
<1>6. StartInv' /\ FilterInv' /\ WindowOfSession' /\ OutputWithinSession' /\ ModelOfOneSession'
  BY <1>1 DEF StartInv, FilterInv, WindowOfSession, OutputWithinSession, ModelOfOneSession
<1>7. QED BY <1>4, <1>5, <1>6 DEF IInv

\* Build makes a window of the session, and keeps a history of it.
LEMMA BuildStep ==
  ASSUME IInv, NEW at \in Position, session > 0, Len(path) < MaxSamples,
         Build([session |-> session, no |-> Len(path) + 1, at |-> at]),
         session' = session, path' = Append(path, at)
  PROVE  /\ hist' \in Seq(Sample) /\ window' \in Seq(Sample)
         /\ first' \in Sample /\ prev' \in Sample /\ accum' \in Nat
         /\ hasFirst' = TRUE /\ first'.session = session /\ first'.no = 1
         /\ path' \in Seq(Position) /\ path' # <<>>
         /\ HistoryInv' /\ WindowOfSession'
<1> DEFINE n == Len(path)
           cur == [session |-> session, no |-> n + 1, at |-> at]
           m == SeqLen - 1
           first0 == IF hasFirst THEN first ELSE cur
           prev0 == IF hasFirst THEN prev ELSE cur
           dist == accum + Abs(cur.at - prev0.at)
           anchor == dist >= AnchorDistance
<1>1. /\ path \in Seq(Position) /\ n \in Nat /\ hist \in Seq(Sample) /\ accum \in Nat
      /\ first \in Sample /\ prev \in Sample /\ session \in 0..MaxSessions
      /\ Len(hist) <= m /\ IsHistory(hist, session, n)
  BY LenProperties DEF IInv, TypeOK, HistoryInv
<1>2. m \in Nat /\ AnchorDistance \in Nat \ {0} /\ MaxSamples \in Nat /\ Position \subseteq Int
  BY PipelineAssumption DEF PipelineAssumption
<1>3. cur \in Sample /\ cur.session = session /\ cur.no = n + 1 /\ cur.at \in Int
  <2>1. at \in Int /\ n + 1 \in 0..MaxSamples
    BY <1>1, <1>2
  <2>2. QED BY <1>1, <2>1 DEF Sample
<1>4. /\ first' = first0 /\ prev' = cur /\ hasFirst' = TRUE
      /\ window' = [i \in 1..m - Len(hist) |-> first0] \o hist \o <<cur>>
      /\ hist' = (IF anchor THEN LastOf(Append(hist, cur), m) ELSE hist)
      /\ accum' = IF anchor THEN 0 ELSE dist
  BY DEF Build
<1>5. path' \in Seq(Position) /\ path' # <<>> /\ Len(path') = n + 1
  BY <1>1, AppendProperties
<1>6. hasFirst <=> path # <<>>
  BY DEF IInv, StartInv
<1>7. first0 \in Sample /\ first0.session = session /\ first0.no = 1
  <2>1. CASE hasFirst
    BY <1>1, <2>1 DEF IInv, StartInv
  <2>2. CASE ~hasFirst
    <3>1. n = 0
      BY <1>6, <2>2, EmptySeq
    <3>2. QED BY <1>3, <2>2, <3>1
  <2>3. QED BY <2>1, <2>2
<1>8. dist \in Nat
  <2>1. prev0 \in Sample
    BY <1>1, <1>3
  <2>2. prev0.at \in Int
    BY <2>1 DEF Sample
  <2>3. cur.at - prev0.at \in Int
    BY <1>3, <2>2
  <2>4. Abs(cur.at - prev0.at) \in Nat
    BY <2>3, AbsNat
  <2> HIDE DEF cur, prev0
  <2>5. QED BY <1>1, <2>4
<1>9. anchor => n > 0
  <2>1. SUFFICES ASSUME n = 0 PROVE ~anchor
    BY <1>1
  <2>2. ~hasFirst
    BY <1>1, <1>6, <2>1, EmptySeq
  <2>3. accum = 0 /\ prev0 = cur
    BY <2>2 DEF IInv, StartInv
  <2>4. cur.at - prev0.at = 0
    BY <1>3, <2>3
  <2>5. Abs(0) = 0
    BY DEF Abs
  <2>6. dist = 0
    BY <2>3, <2>4, <2>5
  <2> HIDE DEF dist
  <2>7. QED BY <1>2, <2>6
<1> HIDE DEF cur, n, m, first0, prev0, dist, anchor
<1>10. window' \in Seq(Sample) /\ IsWindow(window', session, n + 1)
  <2>1. m = SeqLen - 1
    BY DEF m
  <2>2. QED BY <1>1, <1>3, <1>4, <1>7, <2>1, WindowBuilt
<1>11. hist' \in Seq(Sample) /\ Len(hist') <= m /\ IsHistory(hist', session, n + 1)
  <2>1. CASE anchor
    <3>1. hist' = LastOf(Append(hist, cur), m)
      BY <1>4, <2>1
    <3>2. n \in Nat \ {0}
      BY <1>1, <1>9, <2>1
    <3>3. QED BY <1>1, <1>2, <1>3, <3>1, <3>2, HistoryGrows
  <2>2. CASE ~anchor
    BY <1>1, <1>4, <2>2 DEF IsHistory
  <2>3. QED BY <2>1, <2>2
<1>12. HistoryInv'
  BY <1>5, <1>11 DEF HistoryInv, m
<1>13. WindowOfSession'
  BY <1>5, <1>10 DEF WindowOfSession, IsWindow
<1>14. accum' \in Nat
  BY <1>4, <1>8
<1>15. QED BY <1>3, <1>4, <1>5, <1>7, <1>10, <1>11, <1>12, <1>13, <1>14

\* A value between two that lie among the predictions lies among them, and a prediction does.
LEMMA AmongTowards ==
  ASSUME NEW P \in SUBSET Int, NEW a \in Int, NEW b \in Int, Among(a, P), Among(b, P),
         NEW c \in Towards(a, b)
  PROVE  c \in Int /\ Among(c, P)
<1>1. c \in Int /\ ((a <= c /\ c <= b) \/ (b <= c /\ c <= a))
  <2>1. CASE a <= b
    <3>1. c \in a..b
      BY <2>1 DEF Towards
    <3>2. QED BY <3>1
  <2>2. CASE ~(a <= b)
    <3>1. c \in b..a
      BY <2>2 DEF Towards
    <3>2. QED BY <3>1
  <2>3. QED BY <2>1, <2>2
<1>2. PICK la \in P, ua \in P : la <= a /\ a <= ua
  BY DEF Among
<1>3. PICK lb \in P, ub \in P : lb <= b /\ b <= ub
  BY DEF Among
<1>4. CASE a <= c /\ c <= b
  <2>1. la <= c /\ c <= ub
    BY <1>1, <1>2, <1>3, <1>4
  <2>2. QED BY <1>1, <2>1 DEF Among
<1>5. CASE b <= c /\ c <= a
  <2>1. lb <= c /\ c <= ua
    BY <1>1, <1>2, <1>3, <1>5
  <2>2. QED BY <1>1, <2>1 DEF Among
<1>6. QED BY <1>1, <1>4, <1>5

\* What lies among some predictions lies among more.
LEMMA AmongMore ==
  ASSUME NEW P, NEW Q, P \subseteq Q, NEW v, Among(v, P)
  PROVE  Among(v, Q)
BY DEF Among

\* The filter's stages, and the output, lie among the predictions of the session.
LEMMA FilterStep ==
  ASSUME IInv, NEW p \in Prediction, Filter(p), predicted' = predicted \cup {p}
  PROVE  /\ y' \in Int \X Int /\ seeded' = TRUE
         /\ output' \subseteq Int /\ FilterInv'
         /\ \A out \in output' : Among(out, predicted')
<1> DEFINE P == predicted'
           y0 == IF seeded THEN y ELSE <<p, p>>
<1>1. P \in SUBSET Int /\ p \in P /\ p \in Int /\ predicted \subseteq P /\ y \in Int \X Int
  BY PipelineAssumption DEF PipelineAssumption, IInv, TypeOK
<1>2. Among(p, P)
  BY <1>1 DEF Among
<1>3. y0[1] \in Int /\ y0[2] \in Int /\ Among(y0[1], P) /\ Among(y0[2], P)
  <2>1. CASE seeded
    <3>1. Among(y[1], predicted) /\ Among(y[2], predicted)
      BY <2>1 DEF IInv, FilterInv
    <3>2. Among(y[1], P) /\ Among(y[2], P)
      BY <1>1, <3>1, AmongMore
    <3>3. QED BY <1>1, <2>1, <3>2
  <2>2. CASE ~seeded
    BY <1>1, <1>2, <2>2
  <2>3. QED BY <2>1, <2>2
<1>4. PICK y1 \in Towards(y0[1], p) : \E y2 \in Towards(y0[2], y1) :
        y' = <<y1, y2>> /\ output' = {y2} /\ seeded' = TRUE
  BY DEF Filter
<1>5. PICK y2 \in Towards(y0[2], y1) : y' = <<y1, y2>> /\ output' = {y2} /\ seeded' = TRUE
  BY <1>4
<1> HIDE DEF y0, P
<1>6. y1 \in Int /\ Among(y1, P)
  BY <1>1, <1>2, <1>3, AmongTowards
<1>7. y2 \in Int /\ Among(y2, P)
  BY <1>1, <1>3, <1>6, AmongTowards
<1>8. y'[1] = y1 /\ y'[2] = y2
  BY <1>5
<1>9. FilterInv'
  BY <1>6, <1>7, <1>8 DEF FilterInv, P
<1>10. QED BY <1>5, <1>6, <1>7, <1>9 DEF P

\* Computing the motors of a sample.
LEMMA ComputeStep == ASSUME IInv, NEW at \in Position, Compute(at) PROVE IInv'
<1>1. /\ status = "ready" /\ status' = status /\ session > 0 /\ session' = session
      /\ Len(path) < MaxSamples /\ path' = Append(path, at)
      /\ Build([session |-> session, no |-> Len(path) + 1, at |-> at])
  BY DEF Compute
<1>2. /\ hist' \in Seq(Sample) /\ window' \in Seq(Sample)
      /\ first' \in Sample /\ prev' \in Sample /\ accum' \in Nat
      /\ hasFirst' = TRUE /\ first'.session = session /\ first'.no = 1
      /\ path' \in Seq(Position) /\ path' # <<>>
      /\ HistoryInv' /\ WindowOfSession'
  BY <1>1, BuildStep
<1>3. StartInv'
  BY <1>1, <1>2 DEF StartInv
<1>4. session \in 0..MaxSessions /\ lstm \subseteq {session} /\ lstm' \in {lstm, lstm \cup {session}}
  BY <1>1 DEF Compute, IInv, TypeOK, ModelOfOneSession
<1>5. ModelOfOneSession' /\ lstm' \subseteq 0..MaxSessions
  BY <1>1, <1>4 DEF ModelOfOneSession
<1>6. ASSUME NEW p \in Prediction, predicted' = predicted \cup {p}, Filter(p) PROVE IInv'
  <2>1. /\ y' \in Int \X Int /\ seeded' = TRUE
        /\ output' \subseteq Int /\ FilterInv'
        /\ \A out \in output' : Among(out, predicted')
    BY <1>6, FilterStep
  <2>2. OutputWithinSession'
    BY <2>1 DEF OutputWithinSession, Among
  <2>3. predicted' \subseteq Prediction
    BY <1>6 DEF IInv, TypeOK
  <2>4. TypeOK'
    BY <1>1, <1>2, <1>4, <1>5, <2>1, <2>3 DEF IInv, TypeOK
  <2>5. QED BY <1>2, <1>3, <1>5, <2>1, <2>2, <2>4 DEF IInv
<1>7. ASSUME output' = {}, UNCHANGED <<filterVars, predicted>> PROVE IInv'
  <2>1. OutputWithinSession' /\ FilterInv'
    BY <1>7 DEF filterVars, OutputWithinSession, IInv, FilterInv
  <2>2. TypeOK'
    BY <1>1, <1>2, <1>4, <1>5, <1>7 DEF IInv, TypeOK, filterVars
  <2>3. QED BY <1>2, <1>3, <1>5, <2>1, <2>2 DEF IInv
<1>8. QED BY <1>6, <1>7 DEF Compute

\* Every step preserves the invariant.
LEMMA NextIInv == IInv /\ [Next]_vars => IInv'
<1> SUFFICES ASSUME IInv, [Next]_vars PROVE IInv'
  OBVIOUS
<1>1. ASSUME NEW npu \in BOOLEAN, Initialize(npu) PROVE IInv'
  BY <1>1, InitializeStep
<1>2. CASE Reset
  BY <1>2, ResetStep
<1>3. ASSUME NEW at \in Position, Compute(at) PROVE IInv'
  BY <1>3, ComputeStep
<1>4. CASE UNCHANGED vars
  BY <1>4 DEF vars, historyVars, filterVars, IInv, TypeOK, HistoryInv, StartInv, FilterInv,
              WindowOfSession, OutputWithinSession, ModelOfOneSession
<1>5. QED BY <1>1, <1>2, <1>3, <1>4 DEF Next, Quiet

\* The inductive invariant holds in every reachable state.
THEOREM Inductive == Spec => []IInv
BY InitIInv, NextIInv, PTL DEF Spec

\* The variables have their types.
THEOREM TypeCorrect == Spec => []TypeOK
<1>1. IInv => TypeOK
  BY DEF IInv
<1>2. QED BY Inductive, <1>1, PTL

\* WindowOfSession: the model is given full windows of the present session, in the order of
\* time, whatever length they have and however the stick moves.
THEOREM WindowsAreOfSession == Spec => []WindowOfSession
<1>1. IInv => WindowOfSession
  BY DEF IInv
<1>2. QED BY Inductive, <1>1, PTL

\* OutputWithinSession: no earlier session's pose, and no zero, pulls at the motors, whichever
\* inferences fail.
THEOREM OutputsAreWithinSession == Spec => []OutputWithinSession
<1>1. IInv => OutputWithinSession
  BY DEF IInv
<1>2. QED BY Inductive, <1>1, PTL

\* ModelOfOneSession: neither the warm-up nor an earlier session is left in the model.
THEOREM ModelIsOfOneSession == Spec => []ModelOfOneSession
<1>1. IInv => ModelOfOneSession
  BY DEF IInv
<1>2. QED BY Inductive, <1>1, PTL

-----------------------------------------------------------------------------
(* The anchors. *)

\* f is the function of AnchorsOf's definition.
IsChosen(f, steps, n) ==
  f = [k \in 0..n |->
         IF k = 0 THEN <<>>
         ELSE IF SumOver(steps, From(f[k - 1]) + 1, k) >= AnchorDistance
              THEN Append(f[k - 1], k)
              ELSE f[k - 1]]

\* What a step of the recursion does.
Extended(a, steps, k) ==
  IF SumOver(steps, From(a) + 1, k) >= AnchorDistance THEN Append(a, k) ELSE a

LEMMA ChosenValues ==
  ASSUME NEW f, NEW steps, NEW n \in Nat, IsChosen(f, steps, n)
  PROVE  f[0] = <<>> /\ \A k \in 1..n : f[k] = Extended(f[k - 1], steps, k)
<1>1. \A k \in 0..n : f[k] = IF k = 0 THEN <<>> ELSE Extended(f[k - 1], steps, k)
  BY DEF IsChosen, Extended
<1>2. QED BY <1>1

\* There is one, however many samples come.
LEMMA ChosenExists ==
  ASSUME NEW steps
  PROVE  \A n \in Nat : \E f : IsChosen(f, steps, n)
<1> DEFINE T == {n \in Nat : \E f : IsChosen(f, steps, n)}
<1>1. 0 \in T
  <2> DEFINE f == [k \in 0..0 |-> <<>>]
  <2>1. IsChosen(f, steps, 0)
    BY DEF IsChosen
  <2>2. QED BY <2>1
<1>2. ASSUME NEW n \in Nat, n \in T PROVE n + 1 \in T
  <2>1. PICK g : IsChosen(g, steps, n)
    BY <1>2
  <2> DEFINE f == [k \in 0..(n + 1) |-> IF k = n + 1 THEN Extended(g[n], steps, k) ELSE g[k]]
  <2>2. g[0] = <<>> /\ \A k \in 1..n : g[k] = Extended(g[k - 1], steps, k)
    BY <2>1, ChosenValues
  <2>3. ASSUME NEW k \in 0..(n + 1)
        PROVE  f[k] = IF k = 0 THEN <<>> ELSE Extended(f[k - 1], steps, k)
    <3>1. CASE k = n + 1
      <4>1. f[k] = Extended(g[n], steps, k) /\ f[k - 1] = g[n] /\ k # 0
        BY <3>1
      <4>2. QED BY <4>1
    <3>2. CASE k = 0
      BY <2>2, <3>2
    <3>3. CASE k \in 1..n
      <4>1. f[k] = g[k] /\ f[k - 1] = g[k - 1] /\ k # 0
        BY <3>3
      <4>2. QED BY <2>2, <3>3, <4>1
    <3>4. QED BY <3>1, <3>2, <3>3
  <2>4. f = [k \in 0..(n + 1) |-> f[k]]
    OBVIOUS
  <2>5. IsChosen(f, steps, n + 1)
    <3> HIDE DEF f
    <3> QED BY <2>3, <2>4 DEF IsChosen, Extended
  <2> HIDE DEF f
  <2>6. QED BY <2>5
<1> HIDE DEF T
<1>3. Nat \subseteq T
  BY <1>1, <1>2, AllNaturals
<1>4. QED BY <1>3 DEF T

\* Anchors are samples that have come.
LEMMA ChosenAreSamples ==
  ASSUME NEW f, NEW steps, NEW n \in Nat, IsChosen(f, steps, n)
  PROVE  \A k \in 0..n : f[k] \in Seq(1..k)
<1> DEFINE T == {k \in Nat : k <= n => f[k] \in Seq(1..k)}
<1>1. f[0] = <<>> /\ \A k \in 1..n : f[k] = Extended(f[k - 1], steps, k)
  BY ChosenValues
<1>2. 0 \in T
  BY <1>1, EmptySeq
<1>3. ASSUME NEW k \in Nat, k \in T PROVE k + 1 \in T
  <2> DEFINE j == k + 1
  <2>1. SUFFICES ASSUME j <= n PROVE f[j] \in Seq(1..j)
    OBVIOUS
  <2>2. j \in 1..n /\ j - 1 = k /\ k <= n /\ 1..k \subseteq 1..j /\ j \in 1..j
    BY <2>1
  <2>3. f[k] \in Seq(1..k)
    BY <1>3, <2>2
  <2> HIDE DEF j
  <2>4. f[k] \in Seq(1..j)
    BY <2>2, <2>3, SeqMonotonic
  <2>5. f[j] = Extended(f[k], steps, j)
    BY <1>1, <2>2
  <2>6. Append(f[k], j) \in Seq(1..j)
    BY <2>2, <2>4, AppendProperties
  <2>7. QED BY <2>4, <2>5, <2>6 DEF Extended
<1> HIDE DEF T
<1>4. Nat \subseteq T
  BY <1>2, <1>3, AllNaturals
<1>5. QED BY <1>4 DEF T

\* The way to an anchor begins at a sample that has come, once one has.
LEMMA FromSample ==
  ASSUME NEW n \in Nat \ {0}, NEW a \in Seq(1..n)
  PROVE  From(a) \in 1..n
<1>1. CASE a = <<>>
  BY <1>1 DEF From
<1>2. CASE a # <<>>
  <2>1. Len(a) \in Nat /\ Len(a) # 0
    BY <1>2, EmptySeq, LenProperties
  <2>2. Len(a) \in 1..Len(a)
    BY <2>1
  <2>3. a[Len(a)] \in 1..n
    BY <2>2, ElementOfSeq
  <2>4. QED BY <1>2, <2>3 DEF From
<1>3. QED BY <1>1, <1>2

\* The samples to come do not change the anchors so far.
LEMMA ChosenAgree ==
  ASSUME NEW m \in Nat, NEW n \in Nat, m <= n, NEW s, NEW t, Agree(s, t, 2, m),
         NEW f, NEW g, IsChosen(f, s, m), IsChosen(g, t, n)
  PROVE  f[m] = g[m]
<1> DEFINE T == {k \in Nat : k <= m => f[k] = g[k]}
<1>1. f[0] = <<>> /\ \A k \in 1..m : f[k] = Extended(f[k - 1], s, k)
  BY ChosenValues
<1>2. g[0] = <<>> /\ \A k \in 1..n : g[k] = Extended(g[k - 1], t, k)
  BY ChosenValues
<1>3. \A k \in 0..m : f[k] \in Seq(1..k)
  BY ChosenAreSamples
<1>4. 0 \in T
  BY <1>1, <1>2
<1>5. ASSUME NEW k \in Nat, k \in T PROVE k + 1 \in T
  <2> DEFINE j == k + 1
  <2>1. SUFFICES ASSUME j <= m PROVE f[j] = g[j]
    OBVIOUS
  <2>2. j \in 1..m /\ j \in 1..n /\ j - 1 = k /\ k \in 0..m /\ j \in Nat \ {0}
    BY <2>1
  <2>3. f[k] = g[k]
    BY <1>5, <2>2
  <2>4. From(f[k]) \in 1..j
    <3>1. 1..k \subseteq 1..j
      BY <2>2
    <3>2. f[k] \in Seq(1..j)
      BY <1>3, <2>2, <3>1, SeqMonotonic
    <3> HIDE DEF j
    <3>3. QED BY <2>2, <3>2, FromSample
  <2> DEFINE lo == From(f[k]) + 1
  <2>5. lo \in Int /\ lo >= 2 /\ lo - 1 <= j /\ j \in Int
    BY <2>2, <2>4
  <2> HIDE DEF j, lo
  <2>6. Agree(s, t, lo, j)
    BY <2>2, <2>5 DEF Agree
  <2>7. SumOver(t, lo, j) = SumOver(s, lo, j)
    BY <2>5, <2>6, SumOfSame
  <2>8. Extended(f[k], s, j) = Extended(g[k], t, j)
    BY <2>3, <2>7 DEF Extended, lo
  <2>9. f[j] = Extended(f[k], s, j) /\ g[j] = Extended(g[k], t, j)
    BY <1>1, <1>2, <2>2
  <2>10. QED BY <2>8, <2>9
<1> HIDE DEF T
<1>6. Nat \subseteq T
  BY <1>4, <1>5, AllNaturals
<1>7. m \in T
  BY <1>6
<1>8. QED BY <1>7 DEF T

\* AnchorsOf is a value of such a function.
LEMMA AnchorsAreChosen ==
  ASSUME NEW steps, NEW n \in Nat
  PROVE  \E f : IsChosen(f, steps, n) /\ AnchorsOf(steps, n) = f[n]
<1> DEFINE f == CHOOSE f : IsChosen(f, steps, n)
<1>1. \E g : IsChosen(g, steps, n)
  BY ChosenExists
<1>2. IsChosen(f, steps, n)
  BY <1>1
<1>3. AnchorsOf(steps, n) = f[n]
  BY DEF AnchorsOf, IsChosen
<1>4. QED BY <1>2, <1>3

\* No sample, no anchor; and anchors are samples.
LEMMA AnchorsTyped ==
  ASSUME NEW steps, NEW n \in Nat
  PROVE  AnchorsOf(steps, n) \in Seq(1..n) /\ (n = 0 => AnchorsOf(steps, n) = <<>>)
<1>1. PICK f : IsChosen(f, steps, n) /\ AnchorsOf(steps, n) = f[n]
  BY AnchorsAreChosen
<1>2. f[n] \in Seq(1..n)
  <2>1. \A k \in 0..n : f[k] \in Seq(1..k)
    BY <1>1, ChosenAreSamples
  <2>2. QED BY <2>1
<1>3. f[0] = <<>>
  BY <1>1, ChosenValues
<1>4. QED BY <1>1, <1>2, <1>3

\* One sample more makes it an anchor, or leaves the anchors as they were.
LEMMA AnchorsOfMore ==
  ASSUME NEW s, NEW t, NEW n \in Nat, Agree(s, t, 2, n)
  PROVE  AnchorsOf(t, n + 1) = Extended(AnchorsOf(s, n), t, n + 1)
<1> DEFINE j == n + 1
<1>1. j \in Nat /\ n <= j /\ j \in 1..j /\ j - 1 = n
  OBVIOUS
<1> HIDE DEF j
<1>2. PICK f : IsChosen(f, s, n) /\ AnchorsOf(s, n) = f[n]
  BY AnchorsAreChosen
<1>3. PICK g : IsChosen(g, t, j) /\ AnchorsOf(t, j) = g[j]
  BY <1>1, AnchorsAreChosen
<1>4. f[n] = g[n]
  BY <1>1, <1>2, <1>3, ChosenAgree
<1>5. g[j] = Extended(g[j - 1], t, j)
  <2>1. \A k \in 1..j : g[k] = Extended(g[k - 1], t, k)
    BY <1>1, <1>3, ChosenValues
  <2>2. QED BY <1>1, <2>1
<1>6. QED BY <1>1, <1>2, <1>3, <1>4, <1>5 DEF j

-----------------------------------------------------------------------------
(* The history. *)

\* h has the last anchors of a along the path p of session s, as many as fit.
LastAnchors(h, a, p, s) ==
  LET kept == IF Len(a) < SeqLen THEN Len(a) ELSE SeqLen - 1
  IN /\ Len(h) = kept
     /\ \A i \in 1..kept :
          LET k == a[Len(a) - kept + i]
          IN h[i] = [session |-> s, no |-> k, at |-> p[k]]

\* The path q goes on from p, which has n samples.
GoesOn(p, q, n) == \A k \in 1..n : q[k] = p[k]

\* A sample that is no anchor changes nothing.
LEMMA LastAnchorsStay ==
  ASSUME NEW n \in Nat, NEW a \in Seq(1..n), NEW h, NEW p, NEW q, NEW s,
         GoesOn(p, q, n), LastAnchors(h, a, p, s)
  PROVE  LastAnchors(h, a, q, s)
<1> DEFINE kept == IF Len(a) < SeqLen THEN Len(a) ELSE SeqLen - 1
<1>1. Len(a) \in Nat /\ kept \in 0..Len(a)
  BY LenProperties, PipelineAssumption DEF PipelineAssumption
<1>2. ASSUME NEW i \in 1..kept
      PROVE  LET k == a[Len(a) - kept + i]
             IN h[i] = [session |-> s, no |-> k, at |-> q[k]]
  <2> DEFINE k == a[Len(a) - kept + i]
  <2>1. Len(a) - kept + i \in 1..Len(a)
    BY <1>1
  <2>2. k \in 1..n
    BY <2>1, ElementOfSeq
  <2>3. h[i] = [session |-> s, no |-> k, at |-> p[k]]
    BY DEF LastAnchors
  <2>4. q[k] = p[k]
    BY <2>2 DEF GoesOn
  <2>5. QED BY <2>3, <2>4
<1>3. QED BY <1>2 DEF LastAnchors

\* An anchor comes behind the others, in place of the oldest when there is no room.
LEMMA LastAnchorsMove ==
  ASSUME NEW n \in Nat, NEW a \in Seq(1..n), NEW h \in Seq(Sample), NEW p, NEW q, NEW s,
         GoesOn(p, q, n), LastAnchors(h, a, p, s),
         NEW c \in Sample, c = [session |-> s, no |-> n + 1, at |-> q[n + 1]]
  PROVE  LastAnchors(LastOf(Append(h, c), SeqLen - 1), Append(a, n + 1), q, s)
<1> DEFINE m == SeqLen - 1
           kept == IF Len(a) < SeqLen THEN Len(a) ELSE SeqLen - 1
           b == Append(a, n + 1)
           kept1 == IF Len(b) < SeqLen THEN Len(b) ELSE SeqLen - 1
           g == LastOf(Append(h, c), m)
<1>1. m \in Nat /\ SeqLen = m + 1 /\ Len(a) \in Nat /\ kept \in 0..Len(a) /\ kept <= m
  BY LenProperties, PipelineAssumption DEF PipelineAssumption
<1>2. Len(h) = kept
  BY DEF LastAnchors
<1>3. /\ Len(b) = Len(a) + 1 /\ b[Len(a) + 1] = n + 1
      /\ \A i \in 1..Len(a) : b[i] = a[i]
  <2>1. a \in Seq(Nat) /\ n + 1 \in Nat
    <3>1. 1..n \subseteq Nat
      OBVIOUS
    <3>2. QED BY <3>1, SeqMonotonic
  <2>2. QED BY <2>1, AppendProperties
<1>4. PICK d \in 0..1 : IsMoved(g, h, c, d) /\ (d = 1 <=> Len(h) = m)
  <2>1. Len(h) <= m
    BY <1>1, <1>2
  <2> HIDE DEF m
  <2>2. QED BY <1>1, <2>1, LastOfAppend
<1> HIDE DEF g, b
<1>5. Len(g) = kept1 /\ kept1 = kept + 1 - d /\ Len(b) - kept1 = (Len(a) - kept) + d
  <2>1. Len(g) = kept + 1 - d
    BY <1>2, <1>4 DEF IsMoved
  <2>2. CASE kept = m
    <3>1. d = 1 /\ Len(a) >= m
      BY <1>1, <1>2, <1>4, <2>2
    <3>2. kept1 = m
      BY <1>1, <1>3, <3>1
    <3> HIDE DEF kept, kept1
    <3>3. QED BY <1>1, <1>3, <2>1, <2>2, <3>1, <3>2
  <2>3. CASE kept # m
    <3>1. d = 0 /\ kept = Len(a) /\ Len(a) < m
      BY <1>1, <1>2, <1>4, <2>3
    <3>2. kept1 = Len(a) + 1
      BY <1>1, <1>3, <3>1
    <3> HIDE DEF kept, kept1
    <3>3. QED BY <1>1, <1>3, <2>1, <3>1, <3>2
  <2>4. QED BY <2>2, <2>3
<1>6. \A i \in 1..kept : LET k == a[Len(a) - kept + i]
                         IN h[i] = [session |-> s, no |-> k, at |-> p[k]]
  BY DEF LastAnchors
<1> HIDE DEF kept, kept1
<1>7. ASSUME NEW i \in 1..kept1
      PROVE  LET k == b[Len(b) - kept1 + i]
             IN g[i] = [session |-> s, no |-> k, at |-> q[k]]
  <2> DEFINE j == i + d
             o == Len(a) - kept
  <2>1. /\ Len(b) - kept1 + i = o + j /\ j \in Nat \ {0} /\ o \in Nat
        /\ j <= kept + 1 /\ o + kept = Len(a)
    <3>1. kept \in Nat /\ Len(a) \in Nat /\ kept <= Len(a) /\ kept1 \in Nat /\ d \in Nat
      BY <1>1, <1>5
    <3>2. i \in Nat \ {0} /\ i <= kept1
      BY <3>1
    <3>3. Len(b) \in Nat
      BY <1>3, <3>1
    <3>4. j \in Nat \ {0} /\ j <= kept + 1
      BY <1>5, <3>1, <3>2
    <3>5. o \in Nat /\ o + kept = Len(a)
      BY <3>1
    <3>6. Len(b) - kept1 + i = o + j
      BY <1>5, <3>1, <3>2, <3>3
    <3>7. QED BY <3>4, <3>5, <3>6
  <2>2. g[i] = IF j <= Len(h) THEN h[j] ELSE c
    BY <1>4, <1>5 DEF IsMoved
  <2> HIDE DEF j
  <2>3. CASE j <= kept
    <3>1. j \in 1..kept /\ o + j \in 1..Len(a)
      BY <1>1, <2>1, <2>3
    <3> DEFINE k == a[Len(a) - kept + j]
    <3>2. h[j] = [session |-> s, no |-> k, at |-> p[k]]
      BY <1>6, <3>1
    <3>3. k \in 1..n
      BY <3>1, ElementOfSeq
    <3>4. b[o + j] = k /\ q[k] = p[k]
      BY <1>3, <3>1, <3>3 DEF GoesOn
    <3> HIDE DEF o, k
    <3>5. g[i] = [session |-> s, no |-> k, at |-> q[k]]
      BY <1>2, <2>2, <2>3, <3>2, <3>4
    <3>6. QED BY <2>1, <3>4, <3>5
  <2>4. CASE j = kept + 1
    <3>1. o + j = Len(a) + 1 /\ ~(j <= kept)
      BY <1>1, <2>1, <2>4
    <3>2. b[Len(b) - kept1 + i] = n + 1
      BY <1>3, <2>1, <3>1
    <3>3. g[i] = c
      BY <1>2, <2>2, <3>1
    <3>4. QED BY <3>2, <3>3
  <2>5. QED BY <1>1, <2>1, <2>3, <2>4
<1>8. QED BY <1>5, <1>7 DEF LastAnchors, g, b, m, kept1

-----------------------------------------------------------------------------
(* The distance kept is the way from where the next anchor's way begins. *)

AccumInv ==
  path # <<>> => /\ prev.at = path[Len(path)]
                 /\ accum = SumOver(Steps, From(Anchors) + 1, Len(path))

AnchorInv == AccumInv /\ HistoryIsLastAnchors

\* A sample: whether Build makes it an anchor, and what distance it keeps, is by the way.
LEMMA ComputeAnchors ==
  ASSUME IInv, AnchorInv, NEW at \in Position, Compute(at)
  PROVE  AnchorInv'
<1> DEFINE n == Len(path)
           cur == [session |-> session, no |-> n + 1, at |-> at]
           m == SeqLen - 1
           prev0 == IF hasFirst THEN prev ELSE cur
           dist == accum + Abs(cur.at - prev0.at)
           anchor == dist >= AnchorDistance
           a == Anchors
<1>1. /\ session > 0 /\ session' = session /\ n < MaxSamples /\ path' = Append(path, at)
      /\ Build(cur)
  BY DEF Compute
<1>2. /\ path \in Seq(Position) /\ n \in Nat /\ hist \in Seq(Sample) /\ accum \in Nat
      /\ session \in 0..MaxSessions
  BY LenProperties DEF IInv, TypeOK
<1>3. /\ AnchorDistance \in Nat \ {0} /\ Position \subseteq Int /\ MaxSamples \in Nat
      /\ SeqLen \in Nat \ {0}
  BY PipelineAssumption DEF PipelineAssumption
<1>4. /\ Len(path') = n + 1 /\ path'[n + 1] = at
      /\ \A i \in 1..n : path'[i] = path[i] /\ path[i] \in Int
  <2>1. Len(path') = n + 1 /\ path'[n + 1] = at /\ \A i \in 1..n : path'[i] = path[i]
    BY <1>1, <1>2, AppendProperties
  <2>2. \A i \in 1..n : path[i] \in Position
    BY <1>2, ElementOfSeq
  <2>3. QED BY <1>3, <2>1, <2>2
<1>5. /\ prev' = cur
      /\ hist' = (IF anchor THEN LastOf(Append(hist, cur), m) ELSE hist)
      /\ accum' = IF anchor THEN 0 ELSE dist
  BY <1>1 DEF Build
<1>6. cur \in Sample /\ cur.at = at
  <2>1. at \in Int /\ n + 1 \in 0..MaxSamples
    BY <1>1, <1>2, <1>3
  <2>2. QED BY <1>2, <2>1 DEF Sample
<1>7. hasFirst <=> n > 0
  <2>1. path = <<>> <=> n = 0
    BY <1>2, EmptySeq
  <2>2. QED BY <1>2, <2>1 DEF IInv, StartInv
<1>8. Agree(Steps, Steps', 2, n)
  <2>1. SUFFICES ASSUME NEW k \in 2..n PROVE Steps[k] = Steps'[k]
    BY DEF Agree
  <2>2. k \in 2..Len(path) /\ k \in 2..Len(path') /\ k \in 1..n /\ k - 1 \in 1..n
    BY <1>2, <1>4
  <2>3. Steps[k] = Abs(path[k] - path[k - 1]) /\ Steps'[k] = Abs(path'[k] - path'[k - 1])
    BY <2>2 DEF Steps, Abs
  <2>4. QED BY <1>4, <2>2, <2>3
<1>9. a \in Seq(1..n) /\ (n = 0 => a = <<>>) /\ Anchors' = Extended(a, Steps', n + 1)
  <2>1. a = AnchorsOf(Steps, n) /\ Anchors' = AnchorsOf(Steps', n + 1)
    BY <1>4 DEF Anchors, AnchorsOf, From
  <2>2. AnchorsOf(Steps', n + 1) = Extended(AnchorsOf(Steps, n), Steps', n + 1)
    BY <1>2, <1>8, AnchorsOfMore
  <2>3. QED BY <1>2, <2>1, <2>2, AnchorsTyped
<1>10. n > 0 => /\ prev.at = path[n] /\ accum = SumOver(Steps, From(a) + 1, n)
                /\ From(a) \in 1..n
  <2>1. SUFFICES ASSUME n > 0
                 PROVE  /\ prev.at = path[n] /\ accum = SumOver(Steps, From(a) + 1, n)
                        /\ From(a) \in 1..n
    OBVIOUS
  <2>2. path # <<>> /\ n \in Nat \ {0}
    BY <1>2, <2>1, EmptySeq
  <2>3. From(a) \in 1..n
    <3> HIDE DEF n, a
    <3> QED BY <1>9, <2>2, FromSample
  <2>4. QED BY <2>2, <2>3 DEF AnchorInv, AccumInv
<1> HIDE DEF a
<1>11. dist = SumOver(Steps', From(a) + 1, n + 1)
  <2>1. CASE n = 0
    <3>1. From(a) = 1 /\ accum = 0 /\ prev0 = cur
      BY <1>7, <1>9, <2>1 DEF From, IInv, StartInv
    <3>2. Abs(at - at) = 0
      BY <1>3 DEF Abs
    <3>3. dist = 0
      BY <1>6, <3>1, <3>2
    <3>4. SumOver(Steps', 2, 2 - 1) = 0
      BY SumOfNone
    <3> HIDE DEF dist
    <3>5. QED BY <2>1, <3>1, <3>3, <3>4
  <2>2. CASE n > 0
    <3>1. prev0.at = path[n] /\ accum = SumOver(Steps, From(a) + 1, n) /\ From(a) \in 1..n
      BY <1>7, <1>10, <2>2
    <3>2. Steps'[n + 1] = Abs(at - path[n])
      <4>1. n + 1 \in 2..Len(path') /\ (n + 1) - 1 = n /\ n \in 1..n
        BY <1>2, <1>4, <2>2
      <4>2. Steps'[n + 1] = Abs(path'[n + 1] - path'[(n + 1) - 1])
        BY <4>1 DEF Steps, Abs
      <4>3. QED BY <1>4, <4>1, <4>2
    <3>3. dist = accum + Steps'[n + 1]
      BY <1>6, <3>1, <3>2
    <3> DEFINE lo == From(a) + 1
    <3>4. lo \in Int /\ lo >= 2 /\ lo - 1 <= n
      BY <3>1
    <3> HIDE DEF lo, n, dist
    <3>5. Agree(Steps, Steps', lo, n)
      BY <1>2, <1>8, <3>4 DEF Agree
    <3>6. SumOver(Steps', lo, n + 1) = SumOver(Steps, lo, n) + Steps'[n + 1]
      BY <1>2, <3>4, <3>5, SumOfMore
    <3>7. QED BY <3>1, <3>3, <3>6 DEF lo
  <2>3. QED BY <1>2, <2>1, <2>2
<1>12. Anchors' = IF anchor THEN Append(a, n + 1) ELSE a
  BY <1>9, <1>11 DEF Extended
<1>13. AccumInv'
  <2>1. prev'.at = path'[Len(path')]
    BY <1>4, <1>5, <1>6
  <2>2. accum' = SumOver(Steps', From(Anchors') + 1, Len(path'))
    <3>1. CASE anchor
      <4>1. From(Append(a, n + 1)) = n + 1
        <5>1. a \in Seq(Nat) /\ n + 1 \in Nat
          <6>1. 1..n \subseteq Nat
            OBVIOUS
          <6>2. QED BY <1>2, <1>9, <6>1, SeqMonotonic
        <5> DEFINE k == n + 1
        <5> HIDE DEF k
        <5>2. /\ Append(a, k) # <<>> /\ Len(Append(a, k)) = Len(a) + 1
              /\ Append(a, k)[Len(a) + 1] = k
          BY <5>1, AppendProperties DEF k
        <5>3. QED BY <5>2 DEF From, k
      <4>2. Anchors' = Append(a, n + 1) /\ accum' = 0
        BY <1>5, <1>12, <3>1
      <4> DEFINE lo == n + 2
      <4>3. lo \in Int /\ lo = (n + 1) + 1 /\ lo - 1 = n + 1
        BY <1>2
      <4> HIDE DEF lo
      <4>4. SumOver(Steps', lo, lo - 1) = 0
        BY <4>3, SumOfNone
      <4>5. QED BY <1>4, <4>1, <4>2, <4>3, <4>4
    <3>2. CASE ~anchor
      <4>1. Anchors' = a /\ accum' = dist
        BY <1>5, <1>12, <3>2
      <4> HIDE DEF dist
      <4>2. QED BY <1>4, <1>11, <4>1
    <3>3. QED BY <3>1, <3>2
  <2>3. QED BY <2>1, <2>2 DEF AccumInv, Anchors, Steps, From
<1>14. LastAnchors(hist, a, path, session)
  BY <1>1 DEF AnchorInv, HistoryIsLastAnchors, LastAnchors, a
<1>15. GoesOn(path, path', n)
  BY <1>4 DEF GoesOn
<1>16. LastAnchors(hist', Anchors', path', session)
  <2>1. CASE anchor
    <3>1. hist' = LastOf(Append(hist, cur), m) /\ Anchors' = Append(a, n + 1)
      BY <1>5, <1>12, <2>1
    <3>2. cur = [session |-> session, no |-> n + 1, at |-> path'[n + 1]]
      BY <1>4
    <3> HIDE DEF cur, n
    <3>3. LastAnchors(LastOf(Append(hist, cur), SeqLen - 1), Append(a, n + 1), path', session)
      BY <1>2, <1>6, <1>9, <1>14, <1>15, <3>2, LastAnchorsMove
    <3>4. QED BY <3>1, <3>3
  <2>2. CASE ~anchor
    <3>1. hist' = hist /\ Anchors' = a
      BY <1>5, <1>12, <2>2
    <3>2. LastAnchors(hist, a, path', session)
      BY <1>2, <1>9, <1>14, <1>15, LastAnchorsStay
    <3>3. QED BY <3>1, <3>2
  <2>3. QED BY <2>1, <2>2
<1>17. HistoryIsLastAnchors'
  BY <1>1, <1>16 DEF HistoryIsLastAnchors, LastAnchors
<1>18. QED BY <1>13, <1>17 DEF AnchorInv

\* HistoryIsLastAnchors: the history kept step by step is the last anchors of the session's
\* whole motion, for any length of the window, distance of anchors and motion, and whichever
\* inferences fail.
THEOREM HistoryIsOfAnchors == Spec => []HistoryIsLastAnchors
<1>1. ASSUME session = 0 \/ hist = <<>>, path = <<>> PROVE AnchorInv
  <2>1. Len(path) = 0
    BY <1>1, EmptySeq
  <2>2. Anchors = <<>>
    BY <2>1, AnchorsTyped DEF Anchors
  <2>3. HistoryIsLastAnchors
    <3>1. Len(Anchors) = 0
      BY <2>2
    <3>2. SeqLen \in Nat \ {0}
      BY PipelineAssumption DEF PipelineAssumption
    <3>3. hist = <<>> => HistoryIsLastAnchors
      BY <3>1, <3>2 DEF HistoryIsLastAnchors
    <3>4. session = 0 => HistoryIsLastAnchors
      BY DEF HistoryIsLastAnchors
    <3>5. QED BY <1>1, <3>3, <3>4
  <2>4. QED BY <1>1, <2>3 DEF AnchorInv, AccumInv
<1>2. Init => AnchorInv
  BY <1>1 DEF Init
<1>3. IInv /\ AnchorInv /\ [Next]_vars => AnchorInv'
  <2> SUFFICES ASSUME IInv, AnchorInv, [Next]_vars PROVE AnchorInv'
    OBVIOUS
  <2>1. ASSUME session' = 0 \/ hist' = <<>>, path' = <<>> PROVE AnchorInv'
    <3>1. Len(path') = 0
      BY <2>1, EmptySeq
    <3>2. Anchors' = AnchorsOf(Steps', Len(path'))
      BY DEF Anchors, AnchorsOf, From
    <3>3. Anchors' = <<>>
      BY <3>1, <3>2, AnchorsTyped
    <3>4. Len(Anchors') = 0
      BY <3>3
    <3>5. SeqLen \in Nat \ {0}
      BY PipelineAssumption DEF PipelineAssumption
    <3>6. hist' = <<>> => HistoryIsLastAnchors'
      BY <3>4, <3>5 DEF HistoryIsLastAnchors
    <3>7. session' = 0 => HistoryIsLastAnchors'
      BY DEF HistoryIsLastAnchors
    <3>8. QED BY <2>1, <3>6, <3>7 DEF AnchorInv, AccumInv
  <2>2. ASSUME NEW npu \in BOOLEAN, Initialize(npu) PROVE AnchorInv'
    <3>1. path' = <<>> /\ hist' = <<>>
      BY <2>2 DEF Initialize, IInv, StartInv
    <3>2. QED BY <2>1, <3>1
  <2>3. CASE Reset
    <3>1. path' = <<>> /\ hist' = <<>>
      BY <2>3 DEF Reset, HistoryReset
    <3>2. QED BY <2>1, <3>1
  <2>4. ASSUME NEW at \in Position, Compute(at) PROVE AnchorInv'
    BY <2>4, ComputeAnchors
  <2>5. CASE UNCHANGED vars
    <3>1. UNCHANGED <<path, hist, session, prev, accum>>
      BY <2>5 DEF vars, historyVars
    <3>2. Steps' = Steps
      BY <3>1 DEF Steps, Abs
    <3>3. Anchors' = AnchorsOf(Steps', Len(path'))
      BY DEF Anchors, AnchorsOf, From
    <3>4. Anchors' = Anchors
      BY <3>1, <3>2, <3>3 DEF Anchors
    <3>5. AccumInv'
      BY <3>1, <3>2, <3>4 DEF AnchorInv, AccumInv, From
    <3>6. HistoryIsLastAnchors'
      BY <3>1, <3>4 DEF AnchorInv, HistoryIsLastAnchors
    <3>7. QED BY <3>5, <3>6 DEF AnchorInv
  <2>6. QED BY <2>2, <2>3, <2>4, <2>5 DEF Next, Quiet
<1>4. AnchorInv => HistoryIsLastAnchors
  BY DEF AnchorInv
<1>5. QED BY Inductive, <1>2, <1>3, <1>4, PTL DEF Spec
===============================================================================
