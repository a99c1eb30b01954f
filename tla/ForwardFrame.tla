----------------------------- MODULE ForwardFrame -----------------------------
(***************************************************************************)
(* bridge_server_forward (bridge_server.cpp) on the text of the frame: a   *)
(* raw frame comes in, its text is rebuilt in s_payload by a chain of      *)
(* operations of FrameBridge, each of which may fail on its own, and       *)
(* s_payload_len publishes the result.  Every call is one action.          *)
(*                                                                         *)
(* Definitions whose names begin with Broken are mistakes the properties   *)
(* would notice; the model does not use them.                              *)
(***************************************************************************)
EXTENDS FrameBridge

CONSTANTS MaxControllerFrameLen,  \* MAX_CONTROLLER_FRAME_LEN
          RawFrames,              \* frames a controller sends
          Widths,                 \* widths of the numbers formatted for a frame
          MaxFrames               \* bound: frames forwarded

\* A raw frame fits the receive buffer, its parts fit the frame side by side, and it
\* has none of the fields the bridge adds.  The shortest key and its ':' take 11 bytes,
\* and a '}' takes one.
Extent(f, key) == IF HasKey(f, key) THEN 11 + f.value[key].gap + f.value[key].width ELSE 0

IsRawFrame(f) ==
  /\ f \in Frame
  /\ f.len <= MaxControllerFrameLen
  /\ \A key \in Keys : f.value[key].text = "no key" => f.value[key] = Missing
  /\ \A key \in Keys \ (SentTimeKeys \cup JoystickKeys) : f.value[key] = Missing
  /\ Extent(f, "ntp_time") + Extent(f, "timestamp")
       + Extent(f, "joystick_x") + Extent(f, "joystick_y") <= f.len
  /\ f.brace => f.len > 0

\* The widest corrected time belongs to two transfer times of NumberBuf - 1 bytes and
\* different sign, and is one byte wider; a motor position is between 0 and 12.21
\* (motor_inference.cpp:40-48), so the four take at most 4 * 9 bytes.
IsWidths(w) ==
  /\ \A number \in {w.forward, w.received, w.processing, w.transfer, w.x, w.y} : number \in Nat
  /\ w.corrected \in 0..NumberBuf
  /\ w.motor \in 0..36
  /\ w.inferred \in BOOLEAN       \* motor_inference_compute returns 0
  /\ w.stray \in BOOLEAN

ASSUME InputAssumption ==
  /\ MaxControllerFrameLen \in Nat
  /\ MaxFrames \in Nat
  /\ \A f \in RawFrames : IsRawFrame(f)
  /\ \A w \in Widths : IsWidths(w)

VARIABLES
  text,        \* s_payload, as text
  payloadLen,  \* s_payload_len
  sample,      \* what frame_stats, clock_offset and timing_log were last given
               \* as the transfer time
  last         \* the frame forwarded last and what became of it (ghost)

vars == <<text, payloadLen, sample, last>>

NoText == [len |-> 0, brace |-> FALSE, value |-> [key \in Keys |-> Missing]]

Init ==
  /\ text = NoText
  /\ payloadLen = 0
  /\ sample = "none"
  /\ last = [no |-> 0, dropped |-> TRUE, raw |-> NoText, w |-> {}]

\* The length the caller goes on with: the new one, or the old one if r failed.
BrokenLenUnchecked(r, n) == IF r.ok THEN r.n ELSE -1
BrokenLenKept(r, n) == n
LenAfter(r, n) == IF r.ok THEN r.n ELSE n

\* "Fails open": a field that does not go in is left out, the frame is not.
WithCorrection(buf, n, w) == AppendCorrected(buf, n, w)
WithJoystick(raw, buf, n, w) ==
  IF JoystickExtracted(raw) THEN ReformatJoystick(buf, n, w) ELSE Failed(buf)
WithMotor(raw, buf, n, w) ==
  IF JoystickExtracted(raw) /\ w.inferred THEN AppendMotorFields(buf, n, w)
                                          ELSE Failed(buf)

\* The initial value of frame_transfer_time is what is recorded of an untimed frame;
\* without it, that of an earlier frame might be.
BrokenSample(stamped) ==
  IF HasKey(stamped, "frame_transfer_time") THEN stamped.value["frame_transfer_time"].text
                                            ELSE sample

Sample(stamped) ==
  IF HasKey(stamped, "frame_transfer_time") THEN stamped.value["frame_transfer_time"].text
                                            ELSE "0.0"

Forward(raw, w) ==
  LET stamped   == StampFrame(raw, w, text)
      n0        == stamped.n
      corrected == WithCorrection(stamped.buf, n0, w)
      n1        == LenAfter(corrected, n0)
      joystick  == WithJoystick(raw, corrected.buf, n1, w)
      n2        == LenAfter(joystick, n1)
      motor     == WithMotor(raw, joystick.buf, n2, w)
      n3        == LenAfter(motor, n2)
  IN /\ last.no < MaxFrames
     /\ last' = [no |-> last.no + 1, dropped |-> ~stamped.ok, raw |-> raw, w |-> w]
     /\ \/ /\ ~stamped.ok
           /\ text' = stamped.buf
           /\ UNCHANGED <<payloadLen, sample>>
        \/ /\ stamped.ok
           /\ sample' = Sample(stamped.buf)
           /\ text' = motor.buf
           /\ payloadLen' = n3

\* The bound is reached: nothing more is sent.
Quiet == last.no = MaxFrames /\ UNCHANGED vars

Next == \/ \E raw \in RawFrames, w \in Widths : Forward(raw, w)
        \/ Quiet

Spec == Init /\ [][Next]_vars

-----------------------------------------------------------------------------
(* What must hold. *)

\* The type invariant.
TypeOK ==
  /\ text \in Frame
  /\ payloadLen \in Nat
  /\ sample \in {"none", "0.0", "T1", "T1-T0"}
  /\ last.no \in 0..MaxFrames
  /\ last.dropped \in BOOLEAN
  /\ last.raw \in Frame
  /\ last.no > 0 => last.w \in Widths

\* The length that is published, and that lws_write will send, is the length of the
\* text in s_payload, which is no longer than the buffer, however the operations that
\* build it fail one by one.
LengthIsText == payloadLen = text.len /\ text.len <= MaxBridgedFrameLen

\* MAX_BRIDGED_FRAME_LEN is large enough: no frame is dropped and no field left out
\* for want of space, only for a number that its own small buffer cannot hold, or for
\* want of a '}' to insert before.
NothingLeftOutForSpace ==
  last.no > 0 =>
    LET w == last.w IN
    IF last.dropped
    THEN \E number \in {w.forward, w.received, w.processing, w.transfer} : ~Fits(number)
    ELSE /\ last.raw.brace => HasKey(text, CorrectedKey)
         /\ JoystickExtracted(last.raw) =>
              /\ last.raw.brace /\ w.inferred => HasKey(text, MotorKeys)
              /\ Fits(w.x) /\ Fits(w.y) =>
                   \A key \in JoystickKeys : text.value[key].text = "%.8f"

\* A frame with a send-time key goes out with all of the timing fields, one without goes
\* out with none, and what is recorded of it comes from it and from no earlier frame:
\*   - without a key, the default 0.0;
\*   - with a number behind the key (behind "ntp_time", if it is there), the delay T1 - T0;
\*   - with anything else behind it, the receive time T1 itself, since 0.0 is read for T0:
\*     not the T1 - T0 of frame_bridge.h:24-25, and so even if "timestamp" has a number.
\* frame_transfer_time in the text is what is recorded, in all cases that have it, and
\* controller_sent_ntp_time has the controller's own digits.
FieldsAgree ==
  last.no > 0 /\ ~last.dropped =>
    LET raw == last.raw
        sent == raw.value[SentTimeKey(raw)]
    IN IF ~HasSentTimeKey(raw)
       THEN /\ \A key \in TimingKeys : ~HasKey(text, key)
            /\ sample = "0.0"
       ELSE /\ \A key \in TimingKeys : HasKey(text, key)
            /\ text.value["ntp_time"].text = "T2"
            /\ text.value["controller_sent_ntp_time"] = [sent EXCEPT !.gap = 0]
            /\ text.value["frame_transfer_time"].text = sample
            /\ sample = IF SentTimeExtracted(raw) THEN "T1-T0" ELSE "T1"

\* A frame that is dropped leaves the frame published before it as it was, ready to be
\* written by a callback that is still due.
DropLeavesPayload == [][last'.dropped => UNCHANGED <<text, payloadLen>>]_vars

\* What ControllerBridge takes forwarding to be.  Length 0 means that there is nothing to
\* write: an empty frame has it, is not dropped and does not reach the inference; every
\* other frame that is not dropped is published with a length above 0, whichever of the
\* operations on its text fail.
OnlyEmptyClears ==
  [][last' # last =>
       IF last'.raw.len = 0
       THEN ~last'.dropped /\ payloadLen' = 0 /\ ~JoystickExtracted(last'.raw)
       ELSE ~last'.dropped => payloadLen' > 0]_vars

-----------------------------------------------------------------------------
(* What the documentation says, and the code does not do. *)

\* frame_bridge.h:97-98: when bridge_reformat_joystick fails, buf is left unmodified;
\* its caller goes on with the length it had.
ReformatAllOrNothing == payloadLen = text.len

\* frame_bridge.h:39-42: a frame without a send time has no timing data, and the caller
\* should treat it so.
UntimedNotRecorded == last.no > 0 /\ ~HasSentTimeKey(last.raw) => sample # "0.0"
=============================================================================
