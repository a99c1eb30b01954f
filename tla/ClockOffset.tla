----------------------------- MODULE ClockOffset -----------------------------
(***************************************************************************)
(* clock_offset.cpp: the offset between the controller's clock and the     *)
(* bridge's is estimated as the smallest transfer time in a rolling window *)
(* kept in a deque of samples, oldest first, expired from the front.       *)
(*                                                                         *)
(* The clock that ages the samples is CLOCK_REALTIME, which can be set     *)
(* back while the process runs.  Times are integers here.                  *)
(*                                                                         *)
(* Definitions whose names begin with Broken are mistakes the properties   *)
(* would notice; the model does not use them.                              *)
(***************************************************************************)
EXTENDS Integers, Sequences

CONSTANTS Window,      \* kWindowSeconds
          Transfer,    \* the values of frame_transfer_time that occur
          MaxTime,     \* bound: the latest time the clock shows
          MaxSamples   \* bound: samples the deque holds

ASSUME WindowAssumption ==
  /\ Window \in Nat
  /\ Transfer \subseteq Int
  /\ MaxTime \in Nat
  /\ MaxSamples \in Nat

VARIABLES
  now,         \* CLOCK_REALTIME
  steady,      \* the clock has not been set back since the last reset (ghost)
  samples,     \* g_samples
  seen,        \* all samples since the last reset, expired or not (ghost)
  answer       \* what clock_offset_correct returned last

vars == <<now, steady, samples, seen, answer>>

Init ==
  /\ now = 0
  /\ steady = TRUE
  /\ samples = <<>>
  /\ seen = {}
  /\ answer = 0

-----------------------------------------------------------------------------
(* The environment: time passes, and the clock may be set. *)

Pass ==
  /\ now' \in now + 1..MaxTime
  /\ UNCHANGED <<steady, samples, seen, answer>>

SetBack ==
  /\ now' \in 0..now - 1
  /\ steady' = (steady /\ samples = <<>>)
  /\ UNCHANGED <<samples, seen, answer>>

-----------------------------------------------------------------------------
(* clock_offset.cpp *)

\* clock_offset_reset
Reset ==
  /\ samples' = <<>>
  /\ seen' = {}
  /\ steady' = TRUE
  /\ UNCHANGED <<now, answer>>

\* The while loop pops expired samples off the front and stops at the first that has
\* not expired, whatever stands behind it.  The sample just pushed never expires.
BrokenExpired(s) == now - s.at >= Window
Expired(s) == now - s.at > Window
FirstKept(q) == CHOOSE k \in 1..Len(q) : /\ ~Expired(q[k])
                                         /\ \A j \in 1..k - 1 : Expired(q[j])
BrokenExpire(q) == IF Expired(q[1]) THEN Tail(q) ELSE q
Expire(q) == SubSeq(q, FirstKept(q), Len(q))

BrokenRollingMin(q) == q[1].transfer
RollingMin(q) == CHOOSE x \in {q[k].transfer : k \in 1..Len(q)} :
                   \A k \in 1..Len(q) : x <= q[k].transfer

BrokenNewSample(x) == [at |-> x, transfer |-> now]
NewSample(x) == [at |-> now, transfer |-> x]

\* clock_offset_correct
Correct(transfer) ==
  LET kept == Expire(Append(samples, NewSample(transfer)))
  IN /\ Len(kept) <= MaxSamples
     /\ samples' = kept
     /\ seen' = seen \cup {NewSample(transfer)}
     /\ answer' = transfer - RollingMin(kept)
     /\ UNCHANGED <<now, steady>>

Next ==
  \/ Pass
  \/ SetBack
  \/ Reset
  \/ \E transfer \in Transfer : Correct(transfer)

Spec == Init /\ [][Next]_vars

-----------------------------------------------------------------------------
(* What must hold. *)

\* The type invariant.
TypeOK ==
  /\ now \in 0..MaxTime
  /\ steady \in BOOLEAN
  /\ samples \in Seq([at : Nat, transfer : Transfer])
  /\ seen \subseteq [at : Nat, transfer : Transfer]
  /\ answer \in Int

\* The corrected time is never negative, even when the clock is set back: the sample
\* it is computed from is in the window its minimum is taken over.
NeverNegative == answer >= 0

\* The observations within Window of the latest one.
InWindow == {s \in seen : \A t \in seen : t.at - s.at <= Window}

\* As long as the clock has not been set back since the last reset, the deque is the
\* rolling window as of the latest observation, no more and no less: what has expired by
\* then is gone, what has not is there, and it stands in the order of time.  (Expiry
\* comes with an observation; in between, samples stay that are too old by now.)
WindowComplete ==
  steady =>
    /\ {samples[k] : k \in 1..Len(samples)} = InWindow
    /\ \A j, k \in 1..Len(samples) : j < k => samples[j].at <= samples[k].at

\* And what is computed from it is the answer clock_offset.h promises.
Promise == INSTANCE RollingMinimum WITH clock <- now
ImplementsRollingMinimum == Promise!Spec

===========================================================================
