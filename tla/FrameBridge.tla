----------------------------- MODULE FrameBridge -----------------------------
(***************************************************************************)
(* frame_bridge.cpp: the text of a frame on its way through the bridge.    *)
(*                                                                         *)
(* The code works on bytes with substring searches and splices.  What it   *)
(* decides depends on little of the text: its length, which keys occur,    *)
(* how wide their values are and which are readable numbers, and whether   *)
(* there is a '}' to insert before.  A frame is a record of just that; of  *)
(* a value, "text" says where its digits came from.                        *)
(*                                                                         *)
(* An operation that writes to a buffer is Done(n, buf) when the C         *)
(* function returns the length n, and Failed(buf) when it returns -1; buf  *)
(* is the text that is in the buffer afterwards, in either case.           *)
(*                                                                         *)
(* A definition whose name begins with Broken is not part of the model: it *)
(* is the one after it with a mistake that a change to the code could      *)
(* make, kept to show that the properties would notice.                    *)
(***************************************************************************)
EXTENDS Integers

CONSTANT MaxBridgedFrameLen      \* MAX_BRIDGED_FRAME_LEN

ASSUME CapacityAssumption == MaxBridgedFrameLen \in Nat

SentTimeKeys == {"ntp_time", "timestamp"}
JoystickKeys == {"joystick_x", "joystick_y"}
TimingKeys == {"controller_sent_ntp_time", "base_station_processing_time",
               "frame_transfer_time", "controller_to_base_station_received_ntp_time"}
CorrectedKey == "frame_transfer_time_corrected"
MotorKeys == "motor_1_pos .. motor_4_insertion_pos"     \* the four go in together
Keys == SentTimeKeys \cup JoystickKeys \cup TimingKeys \cup {CorrectedKey, MotorKeys}

\* A value: the blanks before it, its width in bytes, and whose digits it holds.  A raw
\* frame has the controller's: "T0" is a time it was sent, "raw" another number, "none"
\* is no number.
Texts == {"no key", "none", "raw", "T0", "T1", "T2", "T1-T0", "T2-T1",
          "T1 and what followed the key", "corrected", "%.8f", "motor"}
FrameValue == [text : Texts, gap : Nat, width : Nat]
Frame == [len : Nat, brace : BOOLEAN, value : [Keys -> FrameValue]]

Missing == [text |-> "no key", gap |-> 0, width |-> 0]
Value(text, width) == [text |-> text, gap |-> 0, width |-> width]

\* A key may be there without a number after it (null, a string): an empty span.
HasKey(f, key) == f.value[key] # Missing
HasNumber(f, key) == HasKey(f, key) /\ f.value[key].width > 0

\* Widths that snprintf can write into a 32-byte buffer with its terminator.
NumberBuf == 32
Fits(width) == width < NumberBuf

Done(n, buf) == [ok |-> TRUE, n |-> n, buf |-> buf]
Failed(buf) == [ok |-> FALSE, n |-> 0, buf |-> buf]

-----------------------------------------------------------------------------
(* Reading. *)

\* find_sent_time_key
HasSentTimeKey(f) == \E key \in SentTimeKeys : HasKey(f, key)
SentTimeKey(f) == IF HasKey(f, "ntp_time") THEN "ntp_time" ELSE "timestamp"

\* bridge_extract_sent_time returns 0
SentTimeExtracted(f) == HasSentTimeKey(f) /\ HasNumber(f, SentTimeKey(f))

\* bridge_extract_joystick returns 0
JoystickExtracted(f) == \A key \in JoystickKeys : HasNumber(f, key)

-----------------------------------------------------------------------------
(* bridge_stamp_frame.  w holds the widths of the numbers it formats. *)

\* Lengths of the literals, from '"' or ',' to ':'.
SentTimeKeyLen(key) == IF key = "ntp_time" THEN 11 ELSE 12
StampLiteralsLen == 27 + 12 + 32 + 23 + 48

StampedLen(raw, w) ==
  LET key == SentTimeKey(raw)
  IN (raw.len - SentTimeKeyLen(key) - raw.value[key].gap) + StampLiteralsLen
       + w.forward + w.processing + w.transfer + w.received

\* An unreadable sent time is not an error here: the empty span is copied, strtod
\* makes 0.0 of it, so frame_transfer_time becomes the receive time itself; and what
\* stood after the key stays where it was, now behind the last number inserted.
StampedValues(raw, w) ==
  LET sent == raw.value[SentTimeKey(raw)]
      readable == SentTimeExtracted(raw)
  IN [raw.value EXCEPT
        ![SentTimeKey(raw)] = Missing,
        !["controller_sent_ntp_time"] = [sent EXCEPT !.gap = 0],
        !["ntp_time"] = Value("T2", w.forward),
        !["base_station_processing_time"] = Value("T2-T1", w.processing),
        !["frame_transfer_time"] = Value(IF readable THEN "T1-T0" ELSE "T1", w.transfer),
        !["controller_to_base_station_received_ntp_time"] =
            Value(IF readable THEN "T1" ELSE "T1 and what followed the key", w.received)]

\* Every check comes before the first byte is written to out.
BrokenNotStamped(raw, out) == Failed(raw)
NotStamped(raw, out) == Failed(out)

StampFrame(raw, w, out) ==
  IF ~HasSentTimeKey(raw)
  THEN IF raw.len > MaxBridgedFrameLen
       THEN NotStamped(raw, out)
       ELSE Done(raw.len, raw)
  ELSE IF /\ Fits(w.forward) /\ Fits(w.received) /\ Fits(w.processing) /\ Fits(w.transfer)
          /\ StampedLen(raw, w) <= MaxBridgedFrameLen
       THEN Done(StampedLen(raw, w),
                 [raw EXCEPT !.len = StampedLen(raw, w), !.value = StampedValues(raw, w)])
       ELSE NotStamped(raw, out)

-----------------------------------------------------------------------------
(* Splicing.  n is the length the caller believes the text to have. *)

\* insert_before_closing_brace: the last '}' within n bytes.  When n is not the
\* length of the text, the bytes up to n end in a cut or in left-over text, and
\* whether there is a '}' among them is not known here: "stray" decides.
InsertBeforeBrace(buf, n, key, value, fieldLen, stray) ==
  IF /\ IF n = buf.len THEN buf.brace ELSE stray
     /\ n + fieldLen <= MaxBridgedFrameLen
  THEN Done(n + fieldLen, [buf EXCEPT !.len = @ + fieldLen, !.value[key] = value])
  ELSE Failed(buf)

\* bridge_append_field, as it is used: for the corrected transfer time.
FieldBuf == 128
CorrectedLen(width) == 33 + width

AppendCorrected(buf, n, w) ==
  IF CorrectedLen(w.corrected) < FieldBuf
  THEN InsertBeforeBrace(buf, n, CorrectedKey, Value("corrected", w.corrected),
                         CorrectedLen(w.corrected), w.stray)
  ELSE Failed(buf)

\* bridge_append_motor_fields; w.motor is the width of the four numbers together.
BrokenMotorBuf == 96
MotorBuf == 192
MotorLen(width) == 70 + width

AppendMotorFields(buf, n, w) ==
  IF MotorLen(w.motor) < MotorBuf
  THEN InsertBeforeBrace(buf, n, MotorKeys, Value("motor", w.motor),
                         MotorLen(w.motor), w.stray)
  ELSE Failed(buf)

\* replace_value_for_key: a key that is missing is left alone.
ReplaceValue(buf, n, key, value) ==
  LET newLen == (n - buf.value[key].width) + value.width
  IN IF ~HasKey(buf, key) THEN Done(n, buf)
     ELSE IF Fits(value.width) /\ newLen <= MaxBridgedFrameLen
     THEN Done(newLen, [buf EXCEPT !.len = (@ - buf.value[key].width) + value.width,
                                   !.value[key] = [value EXCEPT !.gap = buf.value[key].gap]])
     ELSE Failed(buf)

\* bridge_reformat_joystick: x first, then y in the buffer that x has changed.
ReformatJoystick(buf, n, w) ==
  LET x == ReplaceValue(buf, n, "joystick_x", Value("%.8f", w.x))
  IN IF x.ok
     THEN ReplaceValue(x.buf, x.n, "joystick_y", Value("%.8f", w.y))
     ELSE x
=============================================================================
