---------------------------- MODULE MotorInference ----------------------------
(***************************************************************************)
(* motor_inference.cpp with the HistoryWindowBuilder and CascadedEMA of    *)
(* controller_pipeline.hpp: what a controller session leaves behind in the *)
(* process, and what the model and the low-pass filter are fed from it.    *)
(*                                                                         *)
(* A joystick sample is its position on a line, in units in which motion   *)
(* is counted; the code's plane and its trigonometry only enter through    *)
(* the distance of two samples.  The network is any function: a prediction *)
(* is chosen freely, and Invoke() may fail.  Of its LSTM state only the    *)
(* sessions that have reached it are kept.                                 *)
(*                                                                         *)
(* Definitions whose names begin with Broken are mistakes the properties   *)
(* would notice; the model does not use them.                              *)
(***************************************************************************)
EXTENDS Integers, Sequences, RunningSum

CONSTANTS SeqLen,          \* kSeqLen
          AnchorDistance,  \* kAnchorDistance
          Position,        \* where the joystick can be
          Prediction,      \* what the network can predict, dequantized
          MaxSessions,     \* bound: resets
          MaxSamples       \* bound: samples of one session

ASSUME PipelineAssumption ==
  /\ SeqLen \in Nat \ {0}
  /\ AnchorDistance \in Nat \ {0}
  /\ Position \subseteq Int
  /\ Prediction \subseteq Int
  /\ MaxSessions \in Nat
  /\ MaxSamples \in Nat

VARIABLES
  status,       \* motor_inference_init: "new" before it, then "ready" or "failed"
  hist,         \* HistoryWindowBuilder: hist_
  first, prev,  \* first_sample_, prev_sample_
  hasFirst,     \* has_first_
  accum,        \* accum_dist_
  lstm,         \* the sessions that have reached the model's variable tensors
  y,            \* CascadedEMA: y_, its two stages (one of the three motors)
  seeded,       \* g_lpf_initialized
  window,       \* the window the model was last given
  output,       \* motor_out as the last compute left it, {} if it failed
  session,      \* resets so far (ghost)
  path,         \* the samples of this session (ghost)
  predicted     \* the predictions of this session (ghost)

historyVars == <<hist, first, prev, hasFirst, accum, window>>
filterVars == <<y, seeded>>
vars == <<status, historyVars, lstm, filterVars, output, session, path, predicted>>

BrokenAbs(n) == n
Abs(n) == IF n < 0 THEN -n ELSE n
\* One stage of the filter: y + alpha * (s - y) with 0 < alpha < 1.
Towards(a, b) == IF a <= b THEN a..b ELSE b..a

NoSample == [session |-> 0, no |-> 0, at |-> 0]

Init ==
  /\ status = "new"
  /\ hist = <<>>
  /\ first = NoSample /\ prev = NoSample
  /\ hasFirst = FALSE
  /\ accum = 0
  /\ lstm = {}
  /\ y = <<0, 0>>
  /\ seeded = FALSE
  /\ window = <<>>
  /\ output = {}
  /\ session = 0
  /\ path = <<>>
  /\ predicted = {}

-----------------------------------------------------------------------------
\* The throw-away Invoke() that compiles the model's graph for the NPU runs through the
\* model, as session 0.
WarmedUp(npu) == IF npu THEN {0} ELSE {}

\* motor_inference_init.  Its last step is the warm-up, which touches neither history nor
\* filter; when it fails before, the model has not been run, and when it fails there, the
\* model may have been.
Initialize(npu) ==
  /\ status = "new"
  /\ \/ status' = "ready" /\ lstm' = WarmedUp(npu)
     \/ status' = "failed" /\ lstm' \in {lstm, WarmedUp(npu)}
  /\ hist' = <<>> /\ hasFirst' = FALSE /\ accum' = 0
  /\ seeded' = FALSE
  /\ UNCHANGED <<first, prev, window, y, output, session, path, predicted>>

BrokenResetVariableTensors == UNCHANGED lstm
ResetVariableTensors == lstm' = {}

\* HistoryWindowBuilder::Reset
BrokenHistoryReset == hist' = <<>> /\ hasFirst' = FALSE /\ UNCHANGED accum
HistoryReset == hist' = <<>> /\ hasFirst' = FALSE /\ accum' = 0

\* motor_inference_reset.  The filter keeps its values: it is seeded anew by the
\* first prediction to come.
Reset ==
  /\ status = "ready"
  /\ session < MaxSessions
  /\ ResetVariableTensors
  /\ HistoryReset
  /\ seeded' = FALSE
  /\ session' = session + 1
  /\ path' = <<>>
  /\ predicted' = {}
  /\ UNCHANGED <<status, first, prev, window, y, output>>

\* The last n elements of a sequence that has at most one more.
BrokenLastOf(q, n) == q
LastOf(q, n) == IF Len(q) > n THEN Tail(q) ELSE q

\* HistoryWindowBuilder::Build.  The sample is considered as an anchor only after the
\* window has been built.
Build(cur) ==
  LET needed == SeqLen - 1
      first0 == IF hasFirst THEN first ELSE cur
      prev0  == IF hasFirst THEN prev ELSE cur
      dist   == accum + Abs(cur.at - prev0.at)
      anchor == dist >= AnchorDistance
  IN /\ first' = first0
     /\ prev' = cur
     /\ hasFirst' = TRUE
     /\ window' = [i \in 1..needed - Len(hist) |-> first0] \o hist \o <<cur>>
     /\ hist' = IF anchor THEN LastOf(Append(hist, cur), needed) ELSE hist
     /\ accum' = IF anchor THEN 0 ELSE dist

\* CascadedEMA, seeded by the first prediction after a reset.
BrokenFilter(p) ==
  \E y1 \in Towards(y[1], p) : \E y2 \in Towards(y[2], y1) :
    y' = <<y1, y2>> /\ output' = {y2} /\ seeded' = TRUE

Filter(p) ==
  LET y0 == IF seeded THEN y ELSE <<p, p>>
  IN \E y1 \in Towards(y0[1], p) : \E y2 \in Towards(y0[2], y1) :
       /\ y' = <<y1, y2>>
       /\ output' = {y2}
       /\ seeded' = TRUE

\* motor_inference_compute
Compute(at) ==
  /\ status = "ready" /\ session > 0
  /\ Len(path) < MaxSamples
  /\ Build([session |-> session, no |-> Len(path) + 1, at |-> at])
  /\ path' = Append(path, at)
  /\ \/ \E p \in Prediction :
          /\ lstm' = lstm \cup {session}
          /\ predicted' = predicted \cup {p}
          /\ Filter(p)
     \/ /\ lstm' \in {lstm, lstm \cup {session}}        \* Invoke() fails
        /\ output' = {}
        /\ UNCHANGED <<filterVars, predicted>>
  /\ UNCHANGED <<status, session>>

\* The process has given up, or the bounds are reached: nothing more comes.
Quiet ==
  /\ status = "failed" \/ (session = MaxSessions /\ Len(path) = MaxSamples)
  /\ UNCHANGED vars

Next == (\E npu \in BOOLEAN : Initialize(npu)) \/ Reset \/ Quiet \/ \E at \in Position : Compute(at)

Spec == Init /\ [][Next]_vars

-----------------------------------------------------------------------------
(* What must hold. *)

Sample == [session : 0..MaxSessions, no : 0..MaxSamples, at : Int]

\* The type invariant.
TypeOK ==
  /\ status \in {"new", "ready", "failed"}
  /\ hist \in Seq(Sample) /\ window \in Seq(Sample)
  /\ first \in Sample /\ prev \in Sample
  /\ hasFirst \in BOOLEAN /\ seeded \in BOOLEAN
  /\ accum \in Nat
  /\ lstm \subseteq 0..MaxSessions
  /\ y \in Int \X Int
  /\ output \subseteq Int
  /\ session \in 0..MaxSessions
  /\ path \in Seq(Position)
  /\ predicted \subseteq Prediction

\* The way between each sample of the session and the one before it, which the sums of
\* consecutive ones make the way from any sample to a later one.
Steps == [k \in 2..Len(path) |-> Abs(path[k] - path[k - 1])]

\* Where the way to the next anchor begins: at the last one, or at the first sample.
From(anchors) == IF anchors = <<>> THEN 1 ELSE anchors[Len(anchors)]

\* The anchors among n samples with the given steps, as the code counts them: from the
\* first sample, and then from each anchor, the next is where the way first reaches
\* AnchorDistance.  A way of exactly that length is enough (controller_pipeline.hpp:124);
\* the comment of the class (:82-83) asks that it "exceeds" the distance.
AnchorsOf(steps, n) ==
  LET chosen[k \in 0..n] ==
        IF k = 0 THEN <<>>
        ELSE IF SumOver(steps, From(chosen[k - 1]) + 1, k) >= AnchorDistance
             THEN Append(chosen[k - 1], k)
             ELSE chosen[k - 1]
  IN chosen[n]

Anchors == AnchorsOf(Steps, Len(path))

\* The history kept step by step is the last SeqLen - 1 anchors of this session's whole
\* motion, whatever came before the reset and whichever inferences failed.  At a way of
\* exactly AnchorDistance it follows the code, which disagrees with its comment.
HistoryIsLastAnchors ==
  session > 0 =>
    LET kept == IF Len(Anchors) < SeqLen THEN Len(Anchors) ELSE SeqLen - 1
    IN /\ Len(hist) = kept
       /\ \A i \in 1..kept :
            LET k == Anchors[Len(Anchors) - kept + i]
            IN hist[i] = [session |-> session, no |-> k, at |-> path[k]]

\* The window of a session is full from its first sample on, ends in the current sample,
\* goes forward in time, holds no other session's sample, and the current sample is in
\* it once unless it is the first.
WindowOfSession ==
  path # <<>> =>
    /\ Len(window) = SeqLen
    /\ window[SeqLen].no = Len(path)
    /\ \A i \in 1..SeqLen : window[i].session = session
    /\ \A i, j \in 1..SeqLen :
         /\ i < j => window[i].no <= window[j].no
         /\ i # j /\ window[i].no = window[j].no => window[i].no = 1

\* The motors stay within what the network predicted in this session: neither the zero
\* the filter starts from nor the pose of an earlier session pulls at them.
OutputWithinSession ==
  path # <<>> =>
    \A out \in output : \E a, b \in predicted : a <= out /\ out <= b

\* The model's own state is only ever reached by samples of one session.
ModelOfOneSession == session > 0 => lstm \subseteq {session}
=============================================================================
