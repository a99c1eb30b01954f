--------------------------- MODULE ForwardFrameProofs ---------------------------
(***************************************************************************)
(* Proofs about ForwardFrame: for every raw frame that fits the receive    *)
(* buffer, and all widths of the numbers formatted for it, the text that   *)
(* is published fits, is complete and is as long as it is said to be.      *)
(***************************************************************************)
EXTENDS ForwardFrame, TLAPS

\* What the stamp adds at most (142 of literals and four numbers, less the 11 of the key
\* it takes out), the corrected time, two joystick values and the motor positions.
StampRoom == 255
CorrectedRoom == 65
JoystickRoom == 60
MotorRoom == 106

\* MAX_BRIDGED_FRAME_LEN leaves room for all of them: 1024 >= 512 + 486.
RoomForAll ==
  MaxControllerFrameLen + StampRoom + CorrectedRoom + JoystickRoom + MotorRoom
    <= MaxBridgedFrameLen

\* Joystick values fit their 32 bytes, as those in [-1, 1] do.
JoystickFits == \A w \in Widths : Fits(w.x) /\ Fits(w.y)

-----------------------------------------------------------------------------
(* The operations one by one: they keep the length they return true. *)

LEMMA FrameFields ==
  ASSUME NEW f \in Frame
  PROVE  /\ f.len \in Nat
         /\ f.brace \in BOOLEAN
         /\ f.value \in [Keys -> FrameValue]
         /\ \A key \in Keys : /\ f.value[key].gap \in Nat
                              /\ f.value[key].width \in Nat
  <1>1. f.value \in [Keys -> FrameValue]
    BY DEF Frame
  <1>2. \A key \in Keys : f.value[key] \in FrameValue
    BY <1>1
  <1> QED
    BY <1>1, <1>2 DEF Frame, FrameValue

LEMMA KeysAreKeys ==
  /\ SentTimeKeys \subseteq Keys
  /\ JoystickKeys \subseteq Keys
  /\ TimingKeys \subseteq Keys
  /\ CorrectedKey \in Keys
  /\ MotorKeys \in Keys
  BY DEF Keys

LEMMA RawFields ==
  ASSUME NEW raw \in RawFrames
  PROVE  /\ raw \in Frame
         /\ raw.len <= MaxControllerFrameLen
         /\ raw.value["joystick_x"].width + raw.value["joystick_y"].width <= raw.len
         /\ HasSentTimeKey(raw) =>
              /\ SentTimeKey(raw) \in SentTimeKeys
              /\ 11 + raw.value[SentTimeKey(raw)].gap
                   + raw.value["joystick_x"].width + raw.value["joystick_y"].width <= raw.len
  <1>1. IsRawFrame(raw)
    BY InputAssumption
  <1>2. raw \in Frame /\ raw.len <= MaxControllerFrameLen
    BY <1>1 DEF IsRawFrame
  <1>3. {"ntp_time", "timestamp", "joystick_x", "joystick_y"} \subseteq Keys
    BY DEF Keys, SentTimeKeys, JoystickKeys
  <1>4. \A key \in {"ntp_time", "timestamp", "joystick_x", "joystick_y"} :
          /\ Extent(raw, key) \in Nat
          /\ raw.value[key].gap \in Nat
          /\ raw.value[key].width \in Nat
          /\ raw.value[key].width <= Extent(raw, key)
          /\ HasKey(raw, key) => 11 + raw.value[key].gap <= Extent(raw, key)
    <2> SUFFICES ASSUME NEW key \in {"ntp_time", "timestamp", "joystick_x", "joystick_y"}
                 PROVE  /\ Extent(raw, key) \in Nat
                        /\ raw.value[key].gap \in Nat
                        /\ raw.value[key].width \in Nat
                        /\ raw.value[key].width <= Extent(raw, key)
                        /\ HasKey(raw, key) => 11 + raw.value[key].gap <= Extent(raw, key)
      OBVIOUS
    <2>1. raw.value[key].gap \in Nat /\ raw.value[key].width \in Nat
      BY <1>2, <1>3, FrameFields
    <2>2. CASE HasKey(raw, key)
      BY <2>1, <2>2 DEF Extent
    <2>3. CASE ~HasKey(raw, key)
      <3>1. raw.value[key] = Missing
        BY <2>3 DEF HasKey
      <3>2. Missing.width = 0
        BY DEF Missing
      <3> QED
        BY <2>1, <2>3, <3>1, <3>2 DEF Extent
    <2> QED
      BY <2>2, <2>3
  <1>5. Extent(raw, "ntp_time") + Extent(raw, "timestamp")
          + Extent(raw, "joystick_x") + Extent(raw, "joystick_y") <= raw.len
    BY <1>1 DEF IsRawFrame
  <1>6. raw.len \in Nat
    BY <1>2, FrameFields
  <1>7. raw.value["joystick_x"].width + raw.value["joystick_y"].width <= raw.len
    BY <1>4, <1>5, <1>6
  <1>8. ASSUME HasSentTimeKey(raw)
        PROVE  /\ SentTimeKey(raw) \in SentTimeKeys
               /\ 11 + raw.value[SentTimeKey(raw)].gap
                    + raw.value["joystick_x"].width + raw.value["joystick_y"].width <= raw.len
    <2>1. CASE SentTimeKey(raw) = "ntp_time" /\ HasKey(raw, "ntp_time")
      BY <1>4, <1>5, <1>6, <2>1 DEF SentTimeKeys
    <2>2. CASE SentTimeKey(raw) = "timestamp" /\ HasKey(raw, "timestamp")
      BY <1>4, <1>5, <1>6, <2>2 DEF SentTimeKeys
    <2> QED
      BY <1>8, <2>1, <2>2 DEF HasSentTimeKey, SentTimeKey, SentTimeKeys
  <1> QED
    BY <1>2, <1>7, <1>8

\* What a caller reads of the two ways an operation ends.
LEMMA Outcomes ==
  ASSUME NEW n, NEW m, NEW buf
  PROVE  /\ Done(n, buf).ok /\ ~Failed(buf).ok
         /\ Done(n, buf).n = n
         /\ Done(n, buf).buf = buf /\ Failed(buf).buf = buf
         /\ LenAfter(Done(n, buf), m) = n /\ LenAfter(Failed(buf), m) = m
  BY DEF Done, Failed, LenAfter

\* insert_before_closing_brace on a text whose length the caller knows.
LEMMA Inserted ==
  ASSUME NEW buf \in Frame, NEW key \in Keys, NEW value \in FrameValue,
         NEW fieldLen \in Nat, NEW stray \in BOOLEAN,
         buf.len + fieldLen <= MaxBridgedFrameLen
  PROVE  LET r == InsertBeforeBrace(buf, buf.len, key, value, fieldLen, stray)
         IN IF buf.brace
            THEN \E new \in Frame : /\ r = Done(new.len, new)
                                    /\ new.len = buf.len + fieldLen
                                    /\ new.brace = buf.brace
                                    /\ new.value = [buf.value EXCEPT ![key] = value]
            ELSE r = Failed(buf)
  <1>1. CASE buf.brace
    <2> DEFINE new == [buf EXCEPT !.len = @ + fieldLen, !.value[key] = value]
    <2>1. InsertBeforeBrace(buf, buf.len, key, value, fieldLen, stray)
            = Done(buf.len + fieldLen, new)
      BY <1>1 DEF InsertBeforeBrace
    <2>2. /\ new.len = buf.len + fieldLen
          /\ new.brace = buf.brace
          /\ new.value = [buf.value EXCEPT ![key] = value]
      BY DEF Frame
    <2>3. new \in Frame
      <3>1. buf.len + fieldLen \in Nat
        BY FrameFields
      <3> QED
        BY <3>1 DEF Frame
    <2> HIDE DEF new
    <2> QED
      BY <1>1, <2>1, <2>2, <2>3
  <1>2. CASE ~buf.brace
    BY <1>2 DEF InsertBeforeBrace
  <1> QED
    BY <1>1, <1>2

\* replace_value_for_key where there is a number to replace and room for the new one.
LEMMA Replaced ==
  ASSUME NEW buf \in Frame, NEW key \in Keys, NEW value \in FrameValue,
         HasNumber(buf, key), Fits(value.width),
         buf.value[key].width <= buf.len,
         buf.len + 30 <= MaxBridgedFrameLen
  PROVE  \E new \in Frame :
           /\ ReplaceValue(buf, buf.len, key, value) = Done(new.len, new)
           /\ new.len <= buf.len + 30
           /\ buf.len - buf.value[key].width <= new.len
           /\ new.brace = buf.brace
           /\ new.value[key].text = value.text
           /\ \A other \in Keys \ {key} : new.value[other] = buf.value[other]
  <1> DEFINE newLen == (buf.len - buf.value[key].width) + value.width
             v == [value EXCEPT !.gap = buf.value[key].gap]
             new == [buf EXCEPT !.len = (@ - buf.value[key].width) + value.width,
                                !.value[key] = v]
  <1>1. /\ buf.len \in Nat
        /\ buf.value \in [Keys -> FrameValue]
        /\ buf.value[key].gap \in Nat
        /\ buf.value[key].width \in Nat
    BY FrameFields
  <1>2. value.width \in Nat /\ value.width <= 31
    BY DEF FrameValue, Fits, NumberBuf
  <1>3. buf.value[key].width > 0
    BY DEF HasNumber
  <1>4. /\ newLen \in Nat
        /\ newLen <= buf.len + 30
        /\ buf.len - buf.value[key].width <= newLen
    BY <1>1, <1>2, <1>3
  <1>5. newLen <= MaxBridgedFrameLen
    BY <1>1, <1>4, CapacityAssumption
  <1>6. v \in FrameValue /\ v.text = value.text
    BY <1>1 DEF FrameValue
  <1>7. /\ new.len = newLen
        /\ new.brace = buf.brace
        /\ new.value = [buf.value EXCEPT ![key] = v]
    BY DEF Frame
  <1>8. new \in Frame
    BY <1>4, <1>6 DEF Frame
  <1>9. ReplaceValue(buf, buf.len, key, value) = Done(newLen, new)
    BY <1>5 DEF ReplaceValue, HasNumber
  <1>10. new.value[key] = v /\ \A other \in Keys \ {key} : new.value[other] = buf.value[other]
    BY <1>1, <1>7
  <1> HIDE DEF new, v, newLen
  <1> QED
    BY <1>4, <1>6, <1>7, <1>8, <1>9, <1>10

\* What the rest of the chain needs to know of a stamped frame.
IsStampedOf(new, raw) ==
  /\ new.len <= MaxControllerFrameLen + StampRoom
  /\ new.brace = raw.brace
  /\ \A key \in JoystickKeys : new.value[key] = raw.value[key]
  /\ new.value["joystick_x"].width + new.value["joystick_y"].width <= new.len

\* bridge_stamp_frame drops a frame only for a number that does not fit its buffer.
LEMMA Stamped ==
  ASSUME RoomForAll, NEW raw \in RawFrames, NEW w \in Widths, NEW out
  PROVE  \/ \E new \in Frame : StampFrame(raw, w, out) = Done(new.len, new)
                              /\ IsStampedOf(new, raw)
         \/ /\ StampFrame(raw, w, out) = Failed(out)
            /\ \E number \in {w.forward, w.received, w.processing, w.transfer} : ~Fits(number)
  <1>1. /\ w.forward \in Nat /\ w.received \in Nat
        /\ w.processing \in Nat /\ w.transfer \in Nat
    BY InputAssumption DEF IsWidths
  <1>2. /\ raw \in Frame
        /\ raw.len \in Nat
        /\ raw.len <= MaxControllerFrameLen
        /\ raw.value \in [Keys -> FrameValue]
        /\ raw.value["joystick_x"].width + raw.value["joystick_y"].width <= raw.len
    BY RawFields, FrameFields
  <1>3. MaxControllerFrameLen \in Nat /\ MaxBridgedFrameLen \in Nat
    BY InputAssumption, CapacityAssumption
  <1>4. CASE ~HasSentTimeKey(raw)
    <2>1. StampFrame(raw, w, out) = Done(raw.len, raw)
      BY <1>2, <1>3, <1>4 DEF StampFrame, RoomForAll, StampRoom, CorrectedRoom,
                              JoystickRoom, MotorRoom
    <2>2. IsStampedOf(raw, raw)
      BY <1>2, <1>3 DEF IsStampedOf, StampRoom
    <2> QED
      BY <1>2, <2>1, <2>2
  <1>5. CASE /\ HasSentTimeKey(raw)
             /\ \E number \in {w.forward, w.received, w.processing, w.transfer} : ~Fits(number)
    <2>1. StampFrame(raw, w, out) = Failed(out)
      BY <1>5 DEF StampFrame, NotStamped
    <2> QED
      BY <1>5, <2>1
  <1>6. CASE /\ HasSentTimeKey(raw)
             /\ Fits(w.forward) /\ Fits(w.received) /\ Fits(w.processing) /\ Fits(w.transfer)
    <2> DEFINE len == StampedLen(raw, w)
               values == StampedValues(raw, w)
               new == [raw EXCEPT !.len = StampedLen(raw, w), !.value = StampedValues(raw, w)]
               key == SentTimeKey(raw)
    <2>1. /\ key \in SentTimeKeys
          /\ 11 + raw.value[key].gap
               + raw.value["joystick_x"].width + raw.value["joystick_y"].width <= raw.len
      BY <1>6, RawFields
    <2>2. /\ raw.value[key].gap \in Nat
          /\ raw.value["joystick_x"].width \in Nat
          /\ raw.value["joystick_y"].width \in Nat
      BY <1>2, <2>1, FrameFields DEF Keys, SentTimeKeys, JoystickKeys
    <2>3. SentTimeKeyLen(key) \in {11, 12}
      BY DEF SentTimeKeyLen
    <2>4. /\ len \in Nat
          /\ len <= raw.len + StampRoom
          /\ raw.value["joystick_x"].width + raw.value["joystick_y"].width <= len
      BY <1>1, <1>2, <1>6, <2>1, <2>2, <2>3
         DEF StampedLen, StampLiteralsLen, StampRoom, Fits, NumberBuf
    <2>5. values \in [Keys -> FrameValue]
      <3>1. raw.value[key] \in FrameValue
        BY <1>2, <2>1, KeysAreKeys
      <3>2. Missing \in FrameValue
        BY DEF Missing, FrameValue, Texts
      <3>3. \A t \in Texts, n \in Nat : Value(t, n) \in FrameValue
        BY DEF Value, FrameValue
      <3>4. [raw.value[key] EXCEPT !.gap = 0] \in FrameValue
        BY <3>1 DEF FrameValue
      <3> QED
        BY <1>1, <1>2, <3>2, <3>3, <3>4 DEF StampedValues, Texts
    <2>6. \A k \in JoystickKeys : values[k] = raw.value[k]
      <3>1. /\ JoystickKeys \subseteq Keys
            /\ key \notin JoystickKeys
            /\ \A k \in JoystickKeys : k \notin TimingKeys \cup SentTimeKeys
        BY <2>1, KeysAreKeys DEF JoystickKeys, SentTimeKeys, TimingKeys
      <3> QED
        BY <1>2, <3>1 DEF StampedValues, TimingKeys, SentTimeKeys
    <2>7. /\ new.len = len
          /\ new.value = values
          /\ new.brace = raw.brace
      BY <1>2 DEF Frame
    <2>8. new \in Frame
      BY <1>2, <2>4, <2>5 DEF Frame
    <2>9. StampFrame(raw, w, out) = Done(len, new)
      <3>1. len <= MaxBridgedFrameLen
        BY <1>2, <1>3, <2>4 DEF RoomForAll, StampRoom, CorrectedRoom, JoystickRoom, MotorRoom
      <3> QED
        BY <1>6, <3>1 DEF StampFrame
    <2>10. len <= MaxControllerFrameLen + StampRoom
      BY <1>2, <1>3, <2>4 DEF StampRoom
    <2> HIDE DEF new, len, values
    <2>none. IsStampedOf(new, raw)
      BY <2>4, <2>6, <2>7, <2>10 DEF IsStampedOf, JoystickKeys
    <2> QED
      BY <2>7, <2>8, <2>9, <2>none
  <1> QED
    BY <1>4, <1>5, <1>6

\* The timing fields of a stamped frame: all of them if the raw frame has a send time, and none
\* if it has not.
IsTimed(new, raw) ==
  IF HasSentTimeKey(raw)
  THEN /\ \A key \in TimingKeys : HasKey(new, key)
       /\ new.value["ntp_time"].text = "T2"
       /\ new.value["controller_sent_ntp_time"]
            = [raw.value[SentTimeKey(raw)] EXCEPT !.gap = 0]
       /\ new.value["frame_transfer_time"].text
            = IF SentTimeExtracted(raw) THEN "T1-T0" ELSE "T1"
  ELSE \A key \in TimingKeys : ~HasKey(new, key)

LEMMA StampTimes ==
  ASSUME NEW raw \in RawFrames, NEW w, NEW out, StampFrame(raw, w, out).ok
  PROVE  IsTimed(StampFrame(raw, w, out).buf, raw)
  <1> DEFINE r == StampFrame(raw, w, out)
             key == SentTimeKey(raw)
             sent == raw.value[key]
  <1>1. /\ raw \in Frame
        /\ \A k \in Keys : raw.value[k].text = "no key" => raw.value[k] = Missing
        /\ \A k \in Keys \ (SentTimeKeys \cup JoystickKeys) : raw.value[k] = Missing
    BY InputAssumption DEF IsRawFrame
  <1>2. CASE ~HasSentTimeKey(raw)
    <2>1. r.buf = raw
      BY <1>2 DEF StampFrame, NotStamped, Done, Failed
    <2>2. TimingKeys \subseteq Keys \ (SentTimeKeys \cup JoystickKeys)
      BY DEF TimingKeys, Keys, SentTimeKeys, JoystickKeys
    <2>3. \A k \in TimingKeys : ~HasKey(raw, k)
      BY <1>1, <2>2 DEF HasKey
    <2> QED
      BY <1>2, <2>1, <2>3 DEF IsTimed
  <1>3. CASE HasSentTimeKey(raw)
    <2>1. r.buf = [raw EXCEPT !.len = StampedLen(raw, w), !.value = StampedValues(raw, w)]
      BY <1>3 DEF StampFrame, NotStamped, Done, Failed
    <2>2. r.buf.value = StampedValues(raw, w)
      BY <1>1, <2>1 DEF Frame
    <2>3. key \in SentTimeKeys /\ sent # Missing
      BY <1>3 DEF HasSentTimeKey, SentTimeKey, SentTimeKeys, HasKey
    <2>4. sent \in FrameValue /\ sent.text # "no key"
      BY <1>1, <2>3, FrameFields, KeysAreKeys
    <2>5. [sent EXCEPT !.gap = 0] # Missing
      <3>1. [sent EXCEPT !.gap = 0].text = sent.text
        BY <2>4 DEF FrameValue
      <3>2. Missing.text = "no key"
        BY DEF Missing
      <3> QED
        BY <2>4, <3>1, <3>2
    <2>none. Missing.text = "no key"
      BY DEF Missing
    <2> DEFINE v == StampedValues(raw, w)
    <2>7. DOMAIN raw.value = Keys /\ key \in Keys
      BY <1>1, <2>3, KeysAreKeys, FrameFields
    <2>6. v["controller_sent_ntp_time"] = [sent EXCEPT !.gap = 0]
      BY <2>3, <2>7 DEF StampedValues, Keys, TimingKeys, SentTimeKeys
    <2>8. /\ v["ntp_time"].text = "T2"
          /\ v["base_station_processing_time"].text = "T2-T1"
          /\ v["frame_transfer_time"].text = IF SentTimeExtracted(raw) THEN "T1-T0" ELSE "T1"
          /\ v["controller_to_base_station_received_ntp_time"].text
               = IF SentTimeExtracted(raw) THEN "T1" ELSE "T1 and what followed the key"
      BY <2>3, <2>7 DEF StampedValues, Keys, TimingKeys, SentTimeKeys, Value
    <2> HIDE DEF v
    <2>9. \A k \in TimingKeys : v[k] # Missing
      BY <2>5, <2>6, <2>8, <2>none DEF TimingKeys
    <2> QED
      BY <1>3, <2>2, <2>6, <2>8, <2>9 DEF IsTimed, HasKey, v
  <1> QED
    BY <1>2, <1>3

\* A frame that is not stamped leaves the buffer as it was.
LEMMA NotStampedLeaves ==
  ASSUME NEW raw, NEW w, NEW out, ~StampFrame(raw, w, out).ok
  PROVE  StampFrame(raw, w, out).buf = out
  BY DEF StampFrame, NotStamped, Done, Failed

LEMMA WidthFields ==
  ASSUME NEW w \in Widths
  PROVE  /\ w.corrected \in 0..NumberBuf /\ w.motor \in 0..36
         /\ w.x \in Nat /\ w.y \in Nat
         /\ w.stray \in BOOLEAN
  BY InputAssumption DEF IsWidths

\* The corrected time goes in if there is a '}' to insert before.
LEMMA Corrected ==
  ASSUME NEW buf \in Frame, NEW w \in Widths, buf.len + CorrectedRoom <= MaxBridgedFrameLen
  PROVE  IF buf.brace
         THEN \E new \in Frame :
                /\ WithCorrection(buf, buf.len, w) = Done(new.len, new)
                /\ buf.len <= new.len
                /\ new.len <= buf.len + CorrectedRoom
                /\ new.brace = buf.brace
                /\ new.value = [buf.value EXCEPT ![CorrectedKey] = Value("corrected", w.corrected)]
         ELSE WithCorrection(buf, buf.len, w) = Failed(buf)
  <1> DEFINE n == CorrectedLen(w.corrected)
  <1>1. /\ n \in Nat /\ n <= CorrectedRoom /\ n < FieldBuf
        /\ Value("corrected", w.corrected) \in FrameValue
    BY WidthFields
       DEF CorrectedLen, CorrectedRoom, FieldBuf, NumberBuf, Value, FrameValue, Texts
  <1>2. buf.len \in Nat /\ buf.len + n <= MaxBridgedFrameLen
    BY <1>1, FrameFields, CapacityAssumption DEF CorrectedRoom
  <1>3. WithCorrection(buf, buf.len, w)
          = InsertBeforeBrace(buf, buf.len, CorrectedKey, Value("corrected", w.corrected),
                              n, w.stray)
    BY <1>1 DEF WithCorrection, AppendCorrected
  <1> HIDE DEF n
  <1>4. w.stray \in BOOLEAN /\ CorrectedKey \in Keys
    BY WidthFields, KeysAreKeys
  <1>5. IF buf.brace
        THEN \E new \in Frame :
               /\ WithCorrection(buf, buf.len, w) = Done(new.len, new)
               /\ new.len = buf.len + n
               /\ new.brace = buf.brace
               /\ new.value = [buf.value EXCEPT ![CorrectedKey] = Value("corrected", w.corrected)]
        ELSE WithCorrection(buf, buf.len, w) = Failed(buf)
    BY <1>1, <1>2, <1>3, <1>4, Inserted
  <1> QED
    BY <1>1, <1>2, <1>5 DEF CorrectedRoom

\* So do the motor positions.
LEMMA MotorAppended ==
  ASSUME NEW buf \in Frame, NEW w \in Widths, buf.len + MotorRoom <= MaxBridgedFrameLen
  PROVE  IF buf.brace
         THEN \E new \in Frame :
                /\ AppendMotorFields(buf, buf.len, w) = Done(new.len, new)
                /\ new.len <= buf.len + MotorRoom
                /\ new.brace = buf.brace
                /\ new.value = [buf.value EXCEPT ![MotorKeys] = Value("motor", w.motor)]
         ELSE AppendMotorFields(buf, buf.len, w) = Failed(buf)
  <1> DEFINE n == MotorLen(w.motor)
  <1>1. /\ n \in Nat /\ n <= MotorRoom /\ n < MotorBuf
        /\ Value("motor", w.motor) \in FrameValue
    BY WidthFields DEF MotorLen, MotorRoom, MotorBuf, Value, FrameValue, Texts
  <1>2. buf.len \in Nat /\ buf.len + n <= MaxBridgedFrameLen
    BY <1>1, FrameFields, CapacityAssumption DEF MotorRoom
  <1>3. AppendMotorFields(buf, buf.len, w)
          = InsertBeforeBrace(buf, buf.len, MotorKeys, Value("motor", w.motor), n, w.stray)
    BY <1>1 DEF AppendMotorFields
  <1> HIDE DEF n
  <1>4. w.stray \in BOOLEAN /\ MotorKeys \in Keys
    BY WidthFields, KeysAreKeys
  <1>5. IF buf.brace
        THEN \E new \in Frame :
               /\ AppendMotorFields(buf, buf.len, w) = Done(new.len, new)
               /\ new.len = buf.len + n
               /\ new.brace = buf.brace
               /\ new.value = [buf.value EXCEPT ![MotorKeys] = Value("motor", w.motor)]
        ELSE AppendMotorFields(buf, buf.len, w) = Failed(buf)
    BY <1>1, <1>2, <1>3, <1>4, Inserted
  <1> QED
    BY <1>1, <1>2, <1>5 DEF MotorRoom

\* Joystick values that fit are both replaced.
LEMMA Reformatted ==
  ASSUME JoystickFits, NEW buf \in Frame, NEW w \in Widths,
         HasNumber(buf, "joystick_x"), HasNumber(buf, "joystick_y"),
         buf.value["joystick_x"].width + buf.value["joystick_y"].width <= buf.len,
         buf.len + JoystickRoom <= MaxBridgedFrameLen
  PROVE  \E new \in Frame :
           /\ ReformatJoystick(buf, buf.len, w) = Done(new.len, new)
           /\ new.len <= buf.len + JoystickRoom
           /\ new.brace = buf.brace
           /\ \A key \in JoystickKeys : new.value[key].text = "%.8f"
           /\ \A key \in Keys \ JoystickKeys : new.value[key] = buf.value[key]
  <1>1. /\ "joystick_x" \in Keys /\ "joystick_y" \in Keys \ {"joystick_x"}
        /\ JoystickKeys = {"joystick_x", "joystick_y"}
    BY DEF Keys, JoystickKeys
  <1>2. /\ buf.len \in Nat
        /\ buf.value["joystick_x"].width \in Nat
        /\ buf.value["joystick_y"].width \in Nat
    BY <1>1, FrameFields
  <1>3. /\ Value("%.8f", w.x) \in FrameValue /\ Value("%.8f", w.x).width = w.x
        /\ Value("%.8f", w.y) \in FrameValue /\ Value("%.8f", w.y).width = w.y
        /\ Value("%.8f", w.x).text = "%.8f" /\ Value("%.8f", w.y).text = "%.8f"
    BY WidthFields DEF Value, FrameValue, Texts
  <1>4. /\ Fits(Value("%.8f", w.x).width) /\ Fits(Value("%.8f", w.y).width)
    BY <1>3 DEF JoystickFits
  <1>5. /\ buf.value["joystick_x"].width <= buf.len
        /\ buf.len + 30 <= MaxBridgedFrameLen
    BY <1>2, CapacityAssumption DEF JoystickRoom
  <1>6. PICK x \in Frame :
           /\ ReplaceValue(buf, buf.len, "joystick_x", Value("%.8f", w.x)) = Done(x.len, x)
           /\ x.len <= buf.len + 30
           /\ buf.len - buf.value["joystick_x"].width <= x.len
           /\ x.brace = buf.brace
           /\ x.value["joystick_x"].text = "%.8f"
           /\ \A other \in Keys \ {"joystick_x"} : x.value[other] = buf.value[other]
    BY <1>1, <1>3, <1>4, <1>5, Replaced
  <1>7. x.len \in Nat
    BY FrameFields
  <1>8. /\ HasNumber(x, "joystick_y")
        /\ x.value["joystick_y"].width <= x.len
        /\ x.len + 30 <= MaxBridgedFrameLen
    BY <1>1, <1>2, <1>6, <1>7, CapacityAssumption DEF HasNumber, HasKey, JoystickRoom
  <1>9. PICK y \in Frame :
           /\ ReplaceValue(x, x.len, "joystick_y", Value("%.8f", w.y)) = Done(y.len, y)
           /\ y.len <= x.len + 30
           /\ y.brace = x.brace
           /\ y.value["joystick_y"].text = "%.8f"
           /\ \A other \in Keys \ {"joystick_y"} : y.value[other] = x.value[other]
    BY <1>1, <1>3, <1>4, <1>8, Replaced
  <1>10. y.len \in Nat /\ y.len <= buf.len + JoystickRoom
    BY <1>2, <1>6, <1>7, <1>9, FrameFields DEF JoystickRoom
  <1>11. ReformatJoystick(buf, buf.len, w) = Done(y.len, y)
    BY <1>6, <1>9, Outcomes DEF ReformatJoystick
  <1> QED
    BY <1>1, <1>6, <1>9, <1>10, <1>11

-----------------------------------------------------------------------------
(* The chain of bridge_server_forward. *)

\* What NothingLeftOutForSpace asks of a text that is published.
Complete(t, raw, w) ==
  /\ raw.brace => HasKey(t, CorrectedKey)
  /\ JoystickExtracted(raw) =>
       /\ raw.brace /\ w.inferred => HasKey(t, MotorKeys)
       /\ \A key \in JoystickKeys : t.value[key].text = "%.8f"

\* Keys that only the stamp writes.
StampKeys == TimingKeys \cup {"ntp_time"}

LEMMA PublishedText ==
  ASSUME RoomForAll, JoystickFits, NEW raw \in RawFrames, NEW w \in Widths,
         Forward(raw, w),
         NEW a \in Frame, StampFrame(raw, w, text) = Done(a.len, a), IsStampedOf(a, raw)
  PROVE  /\ ~last'.dropped
         /\ text' \in Frame
         /\ payloadLen' = text'.len
         /\ text'.len <= MaxBridgedFrameLen
         /\ Complete(text', raw, w)
         /\ \A key \in StampKeys : text'.value[key] = a.value[key]
         /\ sample' = Sample(a)
  <1>1. /\ MaxControllerFrameLen \in Nat /\ MaxBridgedFrameLen \in Nat
        /\ MaxControllerFrameLen + 486 <= MaxBridgedFrameLen
    BY InputAssumption, CapacityAssumption
       DEF RoomForAll, StampRoom, CorrectedRoom, JoystickRoom, MotorRoom
  <1>2. /\ a.len \in Nat /\ a.len <= MaxControllerFrameLen + 255
        /\ a.brace = raw.brace
        /\ \A key \in JoystickKeys : a.value[key] = raw.value[key]
        /\ a.value["joystick_x"].width + a.value["joystick_y"].width <= a.len
        /\ a.value \in [Keys -> FrameValue]
    BY FrameFields DEF IsStampedOf, StampRoom
  <1>3. /\ CorrectedKey \notin JoystickKeys /\ MotorKeys \notin JoystickKeys
        /\ CorrectedKey # MotorKeys
        /\ CorrectedKey \in Keys /\ MotorKeys \in Keys /\ JoystickKeys \subseteq Keys
        /\ \A n : Value("corrected", n) # Missing /\ Value("motor", n) # Missing
        /\ StampKeys \subseteq Keys \ (JoystickKeys \cup {CorrectedKey, MotorKeys})
    <2>1. StampKeys \subseteq Keys \ (JoystickKeys \cup {CorrectedKey, MotorKeys})
      BY DEF StampKeys, TimingKeys, Keys, SentTimeKeys, JoystickKeys, CorrectedKey, MotorKeys
    <2> QED
      BY <2>1, KeysAreKeys DEF CorrectedKey, MotorKeys, JoystickKeys, Value, Missing
  <1> DEFINE r1 == WithCorrection(a, a.len, w)
  <1>4. PICK b \in Frame :
          /\ r1.buf = b
          /\ LenAfter(r1, a.len) = b.len
          /\ a.len <= b.len /\ b.len <= a.len + 65
          /\ b.brace = a.brace
          /\ \A key \in JoystickKeys \cup StampKeys : b.value[key] = a.value[key]
          /\ a.brace => HasKey(b, CorrectedKey)
    <2>1. a.len + CorrectedRoom <= MaxBridgedFrameLen
      BY <1>1, <1>2 DEF CorrectedRoom
    <2>2. CASE a.brace
      <3>1. PICK b \in Frame :
              /\ r1 = Done(b.len, b)
              /\ a.len <= b.len /\ b.len <= a.len + CorrectedRoom
              /\ b.brace = a.brace
              /\ b.value = [a.value EXCEPT ![CorrectedKey] = Value("corrected", w.corrected)]
        BY <2>1, <2>2, Corrected
      <3>2. /\ \A key \in JoystickKeys \cup StampKeys : b.value[key] = a.value[key]
            /\ HasKey(b, CorrectedKey)
        BY <1>2, <1>3, <3>1 DEF HasKey
      <3>3. r1.buf = b /\ LenAfter(r1, a.len) = b.len
        BY <3>1, Outcomes
      <3>4. a.len <= b.len /\ b.len <= a.len + 65
        BY <3>1 DEF CorrectedRoom
      <3> HIDE DEF r1
      <3> QED
        BY <3>1, <3>2, <3>3, <3>4
    <2>3. CASE ~a.brace
      <3>1. r1 = Failed(a)
        BY <2>1, <2>3, Corrected
      <3> QED
        BY <1>2, <2>3, <3>1, Outcomes
    <2> QED
      BY <2>2, <2>3
  <1> DEFINE r2 == WithJoystick(raw, b, b.len, w)
  <1>5. PICK c \in Frame :
          /\ r2.buf = c
          /\ LenAfter(r2, b.len) = c.len
          /\ c.len <= b.len + 60
          /\ c.brace = b.brace
          /\ JoystickExtracted(raw) => \A key \in JoystickKeys : c.value[key].text = "%.8f"
          /\ HasKey(b, CorrectedKey) => HasKey(c, CorrectedKey)
          /\ \A key \in StampKeys : c.value[key] = b.value[key]
    <2>1. b.len \in Nat /\ b.len + JoystickRoom <= MaxBridgedFrameLen
      BY <1>1, <1>2, <1>4, FrameFields DEF JoystickRoom
    <2>2. CASE JoystickExtracted(raw)
      <3>1. HasNumber(b, "joystick_x") /\ HasNumber(b, "joystick_y")
        BY <1>2, <1>4, <2>2 DEF JoystickExtracted, HasNumber, HasKey, JoystickKeys
      <3>2. b.value["joystick_x"].width + b.value["joystick_y"].width <= b.len
        <4>1. /\ b.value["joystick_x"] = a.value["joystick_x"]
              /\ b.value["joystick_y"] = a.value["joystick_y"]
          BY <1>4 DEF JoystickKeys
        <4>2. a.value["joystick_x"].width \in Nat /\ a.value["joystick_y"].width \in Nat
          BY FrameFields, KeysAreKeys DEF JoystickKeys
        <4> QED
          BY <1>2, <1>4, <2>1, <4>1, <4>2
      <3>3. PICK c \in Frame :
              /\ ReformatJoystick(b, b.len, w) = Done(c.len, c)
              /\ c.len <= b.len + JoystickRoom
              /\ c.brace = b.brace
              /\ \A key \in JoystickKeys : c.value[key].text = "%.8f"
              /\ \A key \in Keys \ JoystickKeys : c.value[key] = b.value[key]
        BY <2>1, <3>1, <3>2, Reformatted
      <3>4. r2 = Done(c.len, c)
        BY <2>2, <3>3 DEF WithJoystick
      <3>5. /\ HasKey(b, CorrectedKey) => HasKey(c, CorrectedKey)
            /\ \A key \in StampKeys : c.value[key] = b.value[key]
        BY <1>3, <3>3 DEF HasKey
      <3> QED
        BY <3>3, <3>4, <3>5, Outcomes DEF JoystickRoom
    <2>3. CASE ~JoystickExtracted(raw)
      <3>1. r2 = Failed(b)
        BY <2>3 DEF WithJoystick
      <3> QED
        BY <2>1, <2>3, <3>1, Outcomes
    <2> QED
      BY <2>2, <2>3
  <1> DEFINE r3 == WithMotor(raw, c, c.len, w)
  <1>6. PICK d \in Frame :
          /\ r3.buf = d
          /\ LenAfter(r3, c.len) = d.len
          /\ d.len <= MaxBridgedFrameLen
          /\ \A key \in JoystickKeys \cup StampKeys : d.value[key] = c.value[key]
          /\ HasKey(c, CorrectedKey) => HasKey(d, CorrectedKey)
          /\ JoystickExtracted(raw) /\ c.brace /\ w.inferred => HasKey(d, MotorKeys)
    <2>1. /\ c.len \in Nat /\ c.len + MotorRoom <= MaxBridgedFrameLen
          /\ c.value \in [Keys -> FrameValue]
      BY <1>1, <1>2, <1>4, <1>5, FrameFields DEF MotorRoom
    <2>2. CASE JoystickExtracted(raw) /\ w.inferred /\ c.brace
      <3>1. r3 = AppendMotorFields(c, c.len, w)
        BY <2>2 DEF WithMotor
      <3>2. PICK d \in Frame :
              /\ r3 = Done(d.len, d)
              /\ d.len <= c.len + MotorRoom
              /\ d.value = [c.value EXCEPT ![MotorKeys] = Value("motor", w.motor)]
        BY <2>1, <2>2, <3>1, MotorAppended
      <3>3. d.len <= MaxBridgedFrameLen
        BY <1>1, <2>1, <3>2, FrameFields DEF MotorRoom
      <3>4. /\ \A key \in JoystickKeys \cup StampKeys : d.value[key] = c.value[key]
            /\ HasKey(c, CorrectedKey) => HasKey(d, CorrectedKey)
            /\ HasKey(d, MotorKeys)
        BY <1>3, <2>1, <3>2 DEF HasKey
      <3>5. r3.buf = d /\ LenAfter(r3, c.len) = d.len
        BY <3>2, Outcomes
      <3> HIDE DEF r3
      <3> QED
        BY <3>3, <3>4, <3>5
    <2>3. CASE ~(JoystickExtracted(raw) /\ w.inferred /\ c.brace)
      <3>1. r3 = Failed(c)
        <4>1. CASE JoystickExtracted(raw) /\ w.inferred
          BY <2>1, <2>3, <4>1, MotorAppended DEF WithMotor
        <4>2. CASE ~(JoystickExtracted(raw) /\ w.inferred)
          BY <4>2 DEF WithMotor
        <4> QED
          BY <4>1, <4>2
      <3>2. c.len <= MaxBridgedFrameLen
        BY <1>1, <2>1 DEF MotorRoom
      <3> QED
        BY <2>3, <3>1, <3>2, Outcomes
    <2> QED
      BY <2>2, <2>3
  <1>7. /\ ~last'.dropped
        /\ text' = d
        /\ payloadLen' = d.len
        /\ sample' = Sample(a)
    <2>1. /\ StampFrame(raw, w, text).ok
          /\ StampFrame(raw, w, text).n = a.len
          /\ StampFrame(raw, w, text).buf = a
      BY Outcomes
    <2>2. ~last'.dropped
      BY <2>1 DEF Forward
    <2>3. text' = r3.buf
      BY <1>4, <1>5, <2>1 DEF Forward
    <2>4. payloadLen' = LenAfter(r3, c.len)
      BY <1>4, <1>5, <2>1 DEF Forward
    <2>5. sample' = Sample(a)
      BY <2>1 DEF Forward
    <2> QED
      BY <1>6, <2>2, <2>3, <2>4, <2>5
  <1> HIDE DEF r1, r2, r3
  <1>8. Complete(d, raw, w)
    BY <1>2, <1>4, <1>5, <1>6 DEF Complete
  <1>9. \A key \in StampKeys : d.value[key] = a.value[key]
    BY <1>4, <1>5, <1>6
  <1> QED
    BY <1>6, <1>7, <1>8, <1>9

TextInv == TypeOK /\ LengthIsText /\ NothingLeftOutForSpace /\ FieldsAgree

LEMMA InitText == Init => TextInv
  <1> SUFFICES ASSUME Init PROVE TextInv
    OBVIOUS
  <1>1. NoText \in Frame /\ NoText.len = 0
    BY DEF NoText, Frame, FrameValue, Missing, Texts
  <1>2. LengthIsText
    BY <1>1, CapacityAssumption DEF Init, LengthIsText
  <1>3. NothingLeftOutForSpace
    BY DEF Init, NothingLeftOutForSpace
  <1>4. TypeOK /\ FieldsAgree
    BY <1>1, InputAssumption DEF Init, TypeOK, FieldsAgree
  <1> QED
    BY <1>2, <1>3, <1>4 DEF TextInv

LEMMA ForwardKeepsText ==
  ASSUME RoomForAll, JoystickFits, TextInv,
         NEW raw \in RawFrames, NEW w \in Widths, Forward(raw, w)
  PROVE  TextInv'
  <1>1. last'.raw = raw /\ last'.w = w
    BY DEF Forward
  <1>types. /\ last'.no \in 0..MaxFrames /\ last'.dropped \in BOOLEAN
        /\ last'.raw \in Frame /\ last'.w \in Widths
    <2>1. last'.no = last.no + 1 /\ last.no < MaxFrames
      BY DEF Forward
    <2>2. last'.no \in 0..MaxFrames
      BY <2>1, InputAssumption DEF TextInv, TypeOK
    <2>3. last'.dropped = ~StampFrame(raw, w, text).ok
      BY DEF Forward
    <2> QED
      BY <1>1, <2>2, <2>3, RawFields
  <1>2. CASE /\ StampFrame(raw, w, text) = Failed(text)
             /\ \E number \in {w.forward, w.received, w.processing, w.transfer} : ~Fits(number)
    <2>1. ~StampFrame(raw, w, text).ok /\ StampFrame(raw, w, text).buf = text
      BY <1>2, Outcomes
    <2>2. last'.dropped
      BY <2>1 DEF Forward
    <2>3. text' = text /\ payloadLen' = payloadLen /\ sample' = sample
      BY <2>1 DEF Forward
    <2>5. TypeOK' /\ FieldsAgree'
      BY <1>types, <2>2, <2>3 DEF TextInv, TypeOK, FieldsAgree
    <2>4. NothingLeftOutForSpace'
      BY <1>1, <1>2, <2>2 DEF NothingLeftOutForSpace
    <2> QED
      BY <2>3, <2>4, <2>5 DEF TextInv, LengthIsText
  <1>3. CASE \E a \in Frame : StampFrame(raw, w, text) = Done(a.len, a) /\ IsStampedOf(a, raw)
    <2>1. PICK a \in Frame : StampFrame(raw, w, text) = Done(a.len, a) /\ IsStampedOf(a, raw)
      BY <1>3
    <2>2. /\ ~last'.dropped
          /\ text' \in Frame
          /\ payloadLen' = text'.len
          /\ text'.len <= MaxBridgedFrameLen
          /\ Complete(text', raw, w)
          /\ \A key \in StampKeys : text'.value[key] = a.value[key]
          /\ sample' = Sample(a)
      BY <2>1, PublishedText
    <2>4. IsTimed(a, raw)
      BY <2>1, StampTimes, Outcomes
    <2>5. sample' = IF ~HasSentTimeKey(raw) THEN "0.0"
                    ELSE IF SentTimeExtracted(raw) THEN "T1-T0" ELSE "T1"
      BY <2>2, <2>4 DEF Sample, IsTimed, TimingKeys
    <2>6. ASSUME ~HasSentTimeKey(raw) PROVE FieldsAgree'
      <3>1. \A key \in TimingKeys : ~HasKey(text', key)
        BY <2>2, <2>4, <2>6 DEF IsTimed, HasKey, StampKeys
      <3> QED
        BY <1>1, <2>5, <2>6, <3>1 DEF FieldsAgree, HasKey
    <2>7. ASSUME HasSentTimeKey(raw) PROVE FieldsAgree'
      <3>1. \A key \in TimingKeys : HasKey(text', key)
        BY <2>2, <2>4, <2>7 DEF IsTimed, HasKey, StampKeys
      <3>2. /\ text'.value["ntp_time"].text = "T2"
            /\ text'.value["controller_sent_ntp_time"]
                 = [raw.value[SentTimeKey(raw)] EXCEPT !.gap = 0]
            /\ text'.value["frame_transfer_time"].text
                 = IF SentTimeExtracted(raw) THEN "T1-T0" ELSE "T1"
        BY <2>2, <2>4, <2>7 DEF IsTimed, StampKeys, TimingKeys
      <3> QED
        BY <1>1, <2>5, <2>7, <3>1, <3>2 DEF FieldsAgree, HasKey
    <2>9. FieldsAgree'
      BY <2>6, <2>7
    <2>10. TypeOK'
      BY <1>types, <2>2, <2>5, FrameFields DEF TypeOK
    <2>3. NothingLeftOutForSpace'
      BY <1>1, <2>2 DEF NothingLeftOutForSpace, Complete, HasKey
    <2> QED
      BY <2>2, <2>3, <2>9, <2>10 DEF TextInv, LengthIsText
  <1> QED
    BY <1>2, <1>3, Stamped

LEMMA NextText ==
  ASSUME RoomForAll, JoystickFits
  PROVE  TextInv /\ [Next]_vars => TextInv'
  <1> SUFFICES ASSUME TextInv, [Next]_vars PROVE TextInv'
    OBVIOUS
  <1>1. ASSUME NEW raw \in RawFrames, NEW w \in Widths, Forward(raw, w) PROVE TextInv'
    BY <1>1, ForwardKeepsText
  <1>2. CASE UNCHANGED vars
    BY <1>2 DEF vars, TextInv, TypeOK, LengthIsText, NothingLeftOutForSpace, FieldsAgree, HasKey
  <1> QED
    BY <1>1, <1>2 DEF Next, Quiet

\* The length published is that of the text in s_payload, and within the buffer, for all
\* frames that fit the receive buffer and all joystick values that fit theirs.
THEOREM PublishedLengthIsText ==
  ASSUME RoomForAll, JoystickFits
  PROVE  Spec => []LengthIsText
  <1>1. TextInv => LengthIsText
    BY DEF TextInv
  <1> QED
    BY <1>1, InitText, NextText, PTL DEF Spec

\* The variables have their types.
THEOREM TypeCorrect ==
  ASSUME RoomForAll, JoystickFits
  PROVE  Spec => []TypeOK
  <1>1. TextInv => TypeOK
    BY DEF TextInv
  <1> QED
    BY <1>1, InitText, NextText, PTL DEF Spec

\* FieldsAgree: a published frame has all of its timing fields or none, and what it says of
\* its transfer is what the diagnostics were given of it: the delay if its send time could be
\* read, the bare receive time if there was none behind the key, 0.0 if there was no key.
THEOREM PublishedFieldsAgree ==
  ASSUME RoomForAll, JoystickFits
  PROVE  Spec => []FieldsAgree
  <1>1. TextInv => FieldsAgree
    BY DEF TextInv
  <1> QED
    BY <1>1, InitText, NextText, PTL DEF Spec

\* A dropped frame leaves the frame published before it as it was, whatever the capacity and
\* whatever the numbers.
THEOREM DropsLeavePayload == Spec => DropLeavesPayload
  <1>1. [Next]_vars => [last'.dropped => UNCHANGED <<text, payloadLen>>]_vars
    <2> SUFFICES ASSUME Next, last'.dropped PROVE UNCHANGED <<text, payloadLen>>
      BY DEF vars
    <2>1. ASSUME NEW raw \in RawFrames, NEW w \in Widths, Forward(raw, w)
          PROVE  UNCHANGED <<text, payloadLen>>
      <3>1. ~StampFrame(raw, w, text).ok
        BY <2>1 DEF Forward
      <3>2. text' = StampFrame(raw, w, text).buf /\ payloadLen' = payloadLen
        BY <2>1, <3>1 DEF Forward
      <3> QED
        BY <3>1, <3>2, NotStampedLeaves
    <2> QED
      BY <2>1 DEF Next, Quiet, vars
  <1> QED
    BY <1>1, PTL DEF Spec, DropLeavesPayload

\* MAX_BRIDGED_FRAME_LEN is large enough: no frame is dropped, and no field left out,
\* for want of space.
THEOREM BufferIsLargeEnough ==
  ASSUME RoomForAll, JoystickFits
  PROVE  Spec => []NothingLeftOutForSpace
  <1>1. TextInv => NothingLeftOutForSpace
    BY DEF TextInv
  <1> QED
    BY <1>1, InitText, NextText, PTL DEF Spec

-----------------------------------------------------------------------------
(* The length published, for any capacity and any numbers: it may not be   *)
(* the text's when an operation fails half-way, but it says whether there  *)
(* is a frame.                                                             *)

\* What the shortest keys take leaves room in a frame for more than its joystick values.
LEMMA JoystickTakesLess ==
  ASSUME NEW raw \in RawFrames
  PROVE  /\ raw.len = 0 => ~HasSentTimeKey(raw) /\ ~JoystickExtracted(raw) /\ ~raw.brace
         /\ JoystickExtracted(raw) =>
              LET read == raw.value["joystick_x"].width + raw.value["joystick_y"].width
              IN /\ read < raw.len
                 /\ HasSentTimeKey(raw) => read + 11 + raw.value[SentTimeKey(raw)].gap < raw.len
<1> DEFINE Four == {"ntp_time", "timestamp", "joystick_x", "joystick_y"}
<1>1. IsRawFrame(raw)
  BY InputAssumption
<1>2. raw \in Frame /\ Four \subseteq Keys /\ raw.len \in Nat
  BY <1>1, FrameFields DEF IsRawFrame, Keys, SentTimeKeys, JoystickKeys
<1>3. ASSUME NEW key \in Four
      PROVE  /\ raw.value[key].gap \in Nat /\ raw.value[key].width \in Nat
             /\ Extent(raw, key) \in Nat
             /\ HasKey(raw, key) =>
                  Extent(raw, key) = 11 + raw.value[key].gap + raw.value[key].width
  <2>1. raw.value[key].gap \in Nat /\ raw.value[key].width \in Nat
    BY <1>2, FrameFields
  <2>2. QED BY <2>1 DEF Extent
<1>4. Extent(raw, "ntp_time") + Extent(raw, "timestamp")
        + Extent(raw, "joystick_x") + Extent(raw, "joystick_y") <= raw.len
  BY <1>1 DEF IsRawFrame
<1>5. ASSUME raw.len = 0
      PROVE  ~HasSentTimeKey(raw) /\ ~JoystickExtracted(raw) /\ ~raw.brace
  <2>1. \A key \in Four : Extent(raw, key) = 0
    BY <1>2, <1>3, <1>4, <1>5
  <2>2. \A key \in Four : ~HasKey(raw, key)
    BY <1>3, <2>1
  <2>3. ~raw.brace
    <3>1. raw.brace => raw.len > 0
      BY <1>1 DEF IsRawFrame
    <3>2. ~(raw.len > 0)
      BY <1>5
    <3>3. QED BY <3>1, <3>2
  <2>4. QED BY <2>2, <2>3
            DEF HasSentTimeKey, JoystickExtracted, HasNumber, SentTimeKeys, JoystickKeys
<1>6. ASSUME JoystickExtracted(raw)
      PROVE  LET read == raw.value["joystick_x"].width + raw.value["joystick_y"].width
             IN /\ read < raw.len
                /\ HasSentTimeKey(raw) => read + 11 + raw.value[SentTimeKey(raw)].gap < raw.len
  <2>1. HasKey(raw, "joystick_x") /\ HasKey(raw, "joystick_y")
    BY <1>6 DEF JoystickExtracted, HasNumber, JoystickKeys
  <2>2. /\ Extent(raw, "joystick_x") > raw.value["joystick_x"].width
        /\ Extent(raw, "joystick_y") > raw.value["joystick_y"].width
    BY <1>3, <2>1
  <2>3. raw.value["joystick_x"].width + raw.value["joystick_y"].width < raw.len
    BY <1>2, <1>3, <1>4, <2>2
  <2>4. ASSUME HasSentTimeKey(raw)
        PROVE  raw.value["joystick_x"].width + raw.value["joystick_y"].width
                 + 11 + raw.value[SentTimeKey(raw)].gap < raw.len
    <3>1. SentTimeKey(raw) \in {"ntp_time", "timestamp"} /\ HasKey(raw, SentTimeKey(raw))
      BY <2>4 DEF HasSentTimeKey, SentTimeKey, SentTimeKeys
    <3>2. 11 + raw.value[SentTimeKey(raw)].gap <= Extent(raw, SentTimeKey(raw))
      BY <1>3, <3>1
    <3>3. QED BY <1>2, <1>3, <1>4, <2>2, <3>1, <3>2
  <2>5. QED BY <1>3, <2>3, <2>4
<1>7. QED BY <1>5, <1>6

\* What the stamp writes are values.
LEMMA StampedTypes ==
  ASSUME NEW raw \in RawFrames, NEW w \in Widths, HasSentTimeKey(raw)
  PROVE  StampedValues(raw, w) \in [Keys -> FrameValue]
<1> DEFINE key == SentTimeKey(raw)
<1>1. /\ w.forward \in Nat /\ w.received \in Nat
      /\ w.processing \in Nat /\ w.transfer \in Nat
  BY InputAssumption DEF IsWidths
<1>2. raw.value \in [Keys -> FrameValue] /\ key \in Keys
  BY RawFields, FrameFields, KeysAreKeys
<1>3. [raw.value[key] EXCEPT !.gap = 0] \in FrameValue
  <2>1. raw.value[key] \in FrameValue
    BY <1>2
  <2>2. QED BY <2>1 DEF FrameValue
<1>4. Missing \in FrameValue
  BY DEF Missing, FrameValue, Texts
<1>5. \A t \in Texts, n \in Nat : Value(t, n) \in FrameValue
  BY DEF Value, FrameValue
<1>6. QED BY <1>1, <1>2, <1>3, <1>4, <1>5 DEF StampedValues, Texts

\* Texts whose length may be wrong, with the joystick values of a raw frame in them.
Holding(raw) ==
  {f \in [len : Int, brace : BOOLEAN, value : [Keys -> FrameValue]] :
     \A key \in JoystickKeys : f.value[key] = raw.value[key]}

\* What the stamp returns, when it returns a length.
LEMMA StampedLength ==
  ASSUME NEW raw \in RawFrames, NEW w \in Widths, NEW out, StampFrame(raw, w, out).ok
  PROVE  LET r == StampFrame(raw, w, out)
         IN /\ r.n \in Nat
            /\ r.buf \in Holding(raw)
            /\ IF raw.len = 0 THEN r.n = 0 /\ r.buf = raw ELSE r.n > 0
            /\ JoystickExtracted(raw) =>
                 raw.value["joystick_x"].width + raw.value["joystick_y"].width < r.n
<1>1. raw.len \in Nat /\ raw.value \in [Keys -> FrameValue]
  BY RawFields, FrameFields
<1>2. raw.value["joystick_x"].width \in Nat /\ raw.value["joystick_y"].width \in Nat
  BY RawFields, FrameFields, KeysAreKeys DEF JoystickKeys
<1>3. CASE ~HasSentTimeKey(raw)
  <2>1. StampFrame(raw, w, out) = Done(raw.len, raw)
    BY <1>3 DEF StampFrame, NotStamped, Failed
  <2>2. raw \in Holding(raw)
    BY <1>1, RawFields DEF Holding, Frame
  <2>3. QED BY <1>1, <2>1, <2>2, JoystickTakesLess, Outcomes
<1>4. CASE HasSentTimeKey(raw)
  <2> DEFINE n == StampedLen(raw, w)
             a == [raw EXCEPT !.len = n, !.value = StampedValues(raw, w)]
             gap == raw.value[SentTimeKey(raw)].gap
  <2>1. StampFrame(raw, w, out) = Done(n, a)
    BY <1>4 DEF StampFrame, NotStamped, Failed
  <2>2. SentTimeKey(raw) \in SentTimeKeys /\ SentTimeKey(raw) \in Keys
    BY <1>4, RawFields, KeysAreKeys
  <2>3. /\ gap \in Nat /\ 11 + gap <= raw.len
        /\ SentTimeKeyLen(SentTimeKey(raw)) \in 11..12
    <3>1. gap \in Nat
      BY <2>2, RawFields, FrameFields
    <3>2. 11 + gap <= raw.len
      <4> HIDE DEF gap
      <4>1. 11 + gap + raw.value["joystick_x"].width + raw.value["joystick_y"].width <= raw.len
        BY <1>4, RawFields DEF gap
      <4>2. QED BY <1>1, <1>2, <3>1, <4>1
    <3>3. QED BY <3>1, <3>2 DEF SentTimeKeyLen
  <2>4. /\ w.forward \in Nat /\ w.processing \in Nat /\ w.transfer \in Nat
        /\ w.received \in Nat
    BY InputAssumption DEF IsWidths
  <2>5. n \in Nat /\ n > 0 /\ n >= raw.len - 11 - gap + 141
    <3>1. n = (raw.len - SentTimeKeyLen(SentTimeKey(raw)) - gap) + 142
                + w.forward + w.processing + w.transfer + w.received
      BY DEF StampedLen, StampLiteralsLen
    <3> HIDE DEF n, gap
    <3>2. QED BY <1>1, <2>3, <2>4, <3>1
  <2>6. JoystickExtracted(raw) =>
          raw.value["joystick_x"].width + raw.value["joystick_y"].width < n
    <3>1. JoystickExtracted(raw) =>
            raw.value["joystick_x"].width + raw.value["joystick_y"].width + 11 + gap < raw.len
      BY <1>4, JoystickTakesLess
    <3> HIDE DEF n, gap
    <3>2. QED BY <1>1, <1>2, <2>3, <2>5, <3>1
  <2>7. a.value = StampedValues(raw, w)
    <3>1. raw \in Frame
      BY RawFields
    <3>2. QED BY <3>1 DEF Frame
  <2>8. \A key \in JoystickKeys : a.value[key] = raw.value[key]
    BY <1>1, <2>2, <2>7, KeysAreKeys DEF StampedValues, JoystickKeys, SentTimeKeys
  <2>9. StampedValues(raw, w) \in [Keys -> FrameValue]
    BY <1>4, StampedTypes
  <2>10. a \in Holding(raw)
    <3>1. raw \in Frame
      BY RawFields
    <3> HIDE DEF n
    <3>2. n \in Nat
      BY <2>5
    <3>3. a \in Frame
      BY <2>9, <3>1, <3>2 DEF Frame
    <3> HIDE DEF a
    <3>4. QED BY <2>8, <3>3 DEF Holding, Frame
  <2>11. raw.len # 0
    BY <1>4, JoystickTakesLess
  <2> HIDE DEF a, n, gap
  <2>12. QED BY <1>1, <2>1, <2>5, <2>6, <2>10, <2>11, Outcomes
<1>5. QED BY <1>3, <1>4

\* A field that is inserted only adds to the length, and is not one of the joystick's.
LEMMA InsertedLength ==
  ASSUME NEW raw, NEW buf \in Holding(raw), NEW n \in Nat, NEW key \in Keys \ JoystickKeys,
         NEW value \in FrameValue, NEW fieldLen \in Nat, NEW stray,
         NEW r, r = InsertBeforeBrace(buf, n, key, value, fieldLen, stray) \/ r = Failed(buf)
  PROVE  LenAfter(r, n) \in Nat /\ n <= LenAfter(r, n) /\ r.buf \in Holding(raw)
<1> DEFINE new == [buf EXCEPT !.len = @ + fieldLen, !.value[key] = value]
<1>1. CASE r = Failed(buf)
  BY <1>1, Outcomes
<1>2. CASE r = Done(n + fieldLen, new)
  <2>1. buf \in [len : Int, brace : BOOLEAN, value : [Keys -> FrameValue]]
    BY DEF Holding
  <2>2. new \in [len : Int, brace : BOOLEAN, value : [Keys -> FrameValue]]
    <3>1. buf.len + fieldLen \in Int
      BY <2>1
    <3>2. [buf.value EXCEPT ![key] = value] \in [Keys -> FrameValue]
      BY <2>1
    <3>3. QED BY <2>1, <3>1, <3>2
  <2>3. \A other \in JoystickKeys : new.value[other] = buf.value[other]
    BY <2>1, KeysAreKeys
  <2> HIDE DEF new
  <2>4. new \in Holding(raw)
    BY <2>2, <2>3 DEF Holding
  <2>5. LenAfter(r, n) = n + fieldLen /\ r.buf = new
    BY <1>2, Outcomes
  <2>6. QED BY <2>4, <2>5
<1>3. QED BY <1>1, <1>2 DEF InsertBeforeBrace

\* A value that is replaced changes the length by the difference of the widths.
LEMMA ReplacedLength ==
  ASSUME NEW raw, NEW buf \in Holding(raw), NEW n \in Nat, NEW key \in JoystickKeys,
         NEW value \in FrameValue, HasKey(buf, key)
  PROVE  LET r == ReplaceValue(buf, n, key, value)
         IN \/ r = Failed(buf)
            \/ /\ r = Done((n - raw.value[key].width) + value.width, r.buf)
               /\ \A other \in JoystickKeys \ {key} : r.buf.value[other] = raw.value[other]
<1> DEFINE newLen == (n - buf.value[key].width) + value.width
           new == [buf EXCEPT !.len = (@ - buf.value[key].width) + value.width,
                              !.value[key] = [value EXCEPT !.gap = buf.value[key].gap]]
           r == ReplaceValue(buf, n, key, value)
<1>1. r = Failed(buf) \/ r = Done(newLen, new)
  BY DEF ReplaceValue
<1>2. buf.value[key] = raw.value[key]
  BY DEF Holding
<1>3. \A other \in JoystickKeys \ {key} : new.value[other] = raw.value[other]
  BY KeysAreKeys DEF Holding
<1> HIDE DEF new, r
<1>4. CASE r = Done(newLen, new)
  <2>1. r.buf = new
    BY <1>4, Outcomes
  <2>2. QED BY <1>2, <1>3, <1>4, <2>1 DEF r
<1>5. QED BY <1>1, <1>4 DEF r

\* Whichever of the two values is replaced, a length above that of both stays above 0.
LEMMA ReformattedLength ==
  ASSUME NEW raw \in RawFrames, NEW w \in Widths, NEW buf \in Holding(raw), NEW n \in Nat,
         JoystickExtracted(raw),
         raw.value["joystick_x"].width + raw.value["joystick_y"].width < n
  PROVE  /\ LenAfter(ReformatJoystick(buf, n, w), n) \in Nat
         /\ LenAfter(ReformatJoystick(buf, n, w), n) > 0
<1> DEFINE vx == Value("%.8f", w.x)
           vy == Value("%.8f", w.y)
           wx == raw.value["joystick_x"].width
           wy == raw.value["joystick_y"].width
           x == ReplaceValue(buf, n, "joystick_x", vx)
           y == ReplaceValue(x.buf, x.n, "joystick_y", vy)
<1>1. wx \in Nat /\ wy \in Nat
  BY RawFields, FrameFields, KeysAreKeys DEF JoystickKeys
<1>2. vx.width = w.x /\ vy.width = w.y /\ w.x \in Nat /\ w.y \in Nat
  BY WidthFields DEF Value
<1>3. ReformatJoystick(buf, n, w) = IF x.ok THEN y ELSE x
  BY DEF ReformatJoystick
<1>4. HasKey(buf, "joystick_x")
  BY DEF Holding, JoystickExtracted, HasNumber, HasKey, JoystickKeys
<1>5. x = Failed(buf) \/ (x = Done((n - wx) + w.x, x.buf)
                            /\ x.buf.value["joystick_y"] = raw.value["joystick_y"])
  <2>1. vx \in FrameValue
    BY WidthFields DEF Value, FrameValue, Texts
  <2> HIDE DEF vx
  <2>2. \/ x = Failed(buf)
        \/ /\ x = Done((n - wx) + vx.width, x.buf)
           /\ \A other \in JoystickKeys \ {"joystick_x"} : x.buf.value[other] = raw.value[other]
    BY <1>4, <2>1, ReplacedLength DEF JoystickKeys
  <2>3. QED BY <1>2, <2>2 DEF JoystickKeys
<1> HIDE DEF vx, x, wx, wy
<1>6. n > 0
  BY <1>1 DEF wx, wy
<1>7. CASE x = Failed(buf)
  <2>1. ~x.ok /\ LenAfter(x, n) = n
    BY <1>7, Outcomes
  <2>2. QED BY <1>3, <1>6, <2>1
<1>8. CASE /\ x = Done((n - wx) + w.x, x.buf)
           /\ x.buf.value["joystick_y"] = raw.value["joystick_y"]
  <2> DEFINE newLen == (x.n - x.buf.value["joystick_y"].width) + vy.width
  <2>1. x.ok /\ x.n = (n - wx) + w.x
    BY <1>8, Outcomes
  <2>2. HasKey(x.buf, "joystick_y")
    BY <1>8 DEF JoystickExtracted, HasNumber, HasKey, JoystickKeys
  <2>3. y = Failed(x.buf) \/ \E new : y = Done(newLen, new)
    BY <2>2 DEF ReplaceValue
  <2>4. newLen = (((n - wx) + w.x) - wy) + w.y
    BY <1>2, <1>8, <2>1 DEF wy
  <2>5. newLen \in Nat /\ newLen > 0
    <3>1. wx + wy < n
      BY DEF wx, wy
    <3> HIDE DEF newLen
    <3>2. QED BY <1>1, <1>2, <2>4, <3>1
  <2> HIDE DEF newLen, y
  <2>6. LenAfter(y, n) = n \/ LenAfter(y, n) = newLen
    BY <2>3, Outcomes
  <2>7. QED BY <1>3, <1>6, <2>1, <2>5, <2>6
<1>9. QED BY <1>5, <1>7, <1>8

\* The length at the end of the chain, if the stamp does not end it.
LEMMA PublishedLength ==
  ASSUME NEW raw \in RawFrames, NEW w \in Widths, Forward(raw, w), ~last'.dropped
  PROVE  IF raw.len = 0 THEN payloadLen' = 0 ELSE payloadLen' > 0
<1> DEFINE r0 == StampFrame(raw, w, text)
           a  == r0.buf
           n0 == r0.n
           r1 == WithCorrection(a, n0, w)
           n1 == LenAfter(r1, n0)
           r2 == WithJoystick(raw, r1.buf, n1, w)
           n2 == LenAfter(r2, n1)
           r3 == WithMotor(raw, r2.buf, n2, w)
           n3 == LenAfter(r3, n2)
<1>1. r0.ok /\ payloadLen' = n3
  BY DEF Forward
<1>2. /\ n0 \in Nat /\ a \in Holding(raw)
      /\ IF raw.len = 0 THEN n0 = 0 /\ a = raw ELSE n0 > 0
      /\ JoystickExtracted(raw) =>
           raw.value["joystick_x"].width + raw.value["joystick_y"].width < n0
  BY <1>1, StampedLength
<1> HIDE DEF r0, a, n0
<1>3. \E value \in FrameValue, fieldLen \in Nat :
        r1 = InsertBeforeBrace(a, n0, CorrectedKey, value, fieldLen, w.stray) \/ r1 = Failed(a)
  <2>1. Value("corrected", w.corrected) \in FrameValue /\ CorrectedLen(w.corrected) \in Nat
    BY WidthFields DEF Value, FrameValue, Texts, CorrectedLen, NumberBuf
  <2>2. QED BY <2>1 DEF WithCorrection, AppendCorrected
<1>4. CorrectedKey \in Keys \ JoystickKeys
  BY KeysAreKeys DEF CorrectedKey, JoystickKeys
<1>5. n1 \in Nat /\ n0 <= n1 /\ r1.buf \in Holding(raw)
  <2> HIDE DEF r1
  <2>1. QED BY <1>2, <1>3, <1>4, InsertedLength
<1>6. ASSUME raw.len = 0 PROVE payloadLen' = 0
  <2>1. ~JoystickExtracted(raw) /\ ~raw.brace
    BY <1>6, JoystickTakesLess
  <2>2. n0 = 0 /\ a = raw
    BY <1>2, <1>6
  <2>3. r1 = Failed(a)
    <3>1. n0 = a.len
      BY <1>6, <2>2
    <3>2. QED BY <2>1, <2>2, <3>1 DEF WithCorrection, AppendCorrected, InsertBeforeBrace
  <2>4. n1 = 0
    <3> HIDE DEF r1
    <3>1. QED BY <2>2, <2>3, Outcomes
  <2> HIDE DEF r1, n1
  <2>5. r2 = Failed(r1.buf) /\ r3 = Failed(r2.buf)
    BY <2>1 DEF WithJoystick, WithMotor
  <2> HIDE DEF r2, r3
  <2>6. QED BY <1>1, <2>4, <2>5, Outcomes
<1>7. ASSUME raw.len # 0 PROVE payloadLen' > 0
  <2>1. n1 > 0
    BY <1>2, <1>5, <1>7
  <2> HIDE DEF r1, n1
  <2>2. n2 \in Nat /\ n2 > 0
    <3>1. CASE JoystickExtracted(raw)
      <4>1. r2 = ReformatJoystick(r1.buf, n1, w)
        BY <3>1 DEF WithJoystick
      <4>2. raw.value["joystick_x"].width + raw.value["joystick_y"].width < n1
        <5>1. raw.value["joystick_x"].width \in Nat /\ raw.value["joystick_y"].width \in Nat
          BY RawFields, FrameFields, KeysAreKeys DEF JoystickKeys
        <5>2. QED BY <1>2, <1>5, <3>1, <5>1
      <4>3. QED BY <1>5, <3>1, <4>1, <4>2, ReformattedLength
    <3>2. CASE ~JoystickExtracted(raw)
      <4>1. r2 = Failed(r1.buf)
        BY <3>2 DEF WithJoystick
      <4> HIDE DEF r2
      <4>2. QED BY <1>5, <2>1, <4>1, Outcomes
    <3>3. QED BY <3>1, <3>2
  <2> HIDE DEF r2, n2
  <2>3. n3 \in Nat /\ n3 >= n2
    <3>1. CASE r3 = Failed(r2.buf)
      <4> HIDE DEF r3
      <4>1. QED BY <2>2, <3>1, Outcomes
    <3>2. CASE \E new : r3 = Done(n2 + MotorLen(w.motor), new)
      <4>1. MotorLen(w.motor) \in Nat
        BY WidthFields DEF MotorLen
      <4> HIDE DEF r3
      <4>2. QED BY <2>2, <3>2, <4>1, Outcomes
    <3>3. QED BY <3>1, <3>2 DEF WithMotor, AppendMotorFields, InsertBeforeBrace
  <2> HIDE DEF n3
  <2>4. QED BY <1>1, <2>2, <2>3
<1>8. QED BY <1>6, <1>7

\* OnlyEmptyClears: the length 0 is published for an empty frame and for no other, whatever
\* the capacity and the numbers; so what ControllerBridge takes forwarding to be covers it.
THEOREM OnlyEmptyFramesClear == Spec => OnlyEmptyClears
<1> DEFINE Clears ==
      last' # last =>
        IF last'.raw.len = 0
        THEN ~last'.dropped /\ payloadLen' = 0 /\ ~JoystickExtracted(last'.raw)
        ELSE ~last'.dropped => payloadLen' > 0
<1>1. ASSUME NEW raw \in RawFrames, NEW w \in Widths, Forward(raw, w) PROVE Clears
  <2>1. last'.raw = raw
    BY <1>1 DEF Forward
  <2>2. ~last'.dropped => IF raw.len = 0 THEN payloadLen' = 0 ELSE payloadLen' > 0
    BY <1>1, PublishedLength
  <2>3. ASSUME raw.len = 0 PROVE ~last'.dropped /\ ~JoystickExtracted(raw)
    <3>1. ~HasSentTimeKey(raw) /\ ~JoystickExtracted(raw)
      BY <2>3, JoystickTakesLess
    <3>2. StampFrame(raw, w, text) = Done(0, raw)
      BY <2>3, <3>1, CapacityAssumption DEF StampFrame
    <3>3. ~last'.dropped
      <4>1. StampFrame(raw, w, text).ok
        BY <3>2, Outcomes
      <4>2. QED BY <1>1, <4>1 DEF Forward
    <3>4. QED BY <3>1, <3>3
  <2>4. QED BY <2>1, <2>2, <2>3
<1>2. [Next]_vars => [Clears]_vars
  BY <1>1 DEF Next, Quiet
<1>3. QED BY <1>2, PTL DEF Spec, OnlyEmptyClears

=============================================================================
