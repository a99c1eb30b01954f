---------------------------- MODULE MCForwardFrame ----------------------------
(* Instances of ForwardFrame for TLC, with the lengths of the code. *)
EXTENDS ForwardFrame

Unreadable == [text |-> "none", gap |-> 1, width |-> 0]
Number(from, gap, width) == [text |-> from, gap |-> gap, width |-> width]

Raw(ntp, timestamp, x, y, len, brace) ==
  [len |-> len, brace |-> brace,
   value |-> [key \in Keys |-> CASE key = "ntp_time" -> ntp
                                 [] key = "timestamp" -> timestamp
                                 [] key = "joystick_x" -> x
                                 [] key = "joystick_y" -> y
                                 [] OTHER -> Missing]]

T0 == Number("T0", 0, 17)
Narrow == Number("raw", 0, 1)
Wide == Number("raw", 1, 20)

\* Frames short and long, with and without each of the fields the bridge looks for.
\* 150 bytes hold all of them; the longest frame grows most if its values are narrow.
EveryShape ==
  {Raw(ntp, timestamp, joystick[1], joystick[2], len, brace) :
     ntp \in {Missing, Unreadable, T0, Number("T0", 1, 1)}, timestamp \in {Missing, T0},
     joystick \in {<<Missing, Missing>>, <<Narrow, Narrow>>, <<Wide, Narrow>>,
                   <<Narrow, Missing>>, <<Unreadable, Wide>>},
     len \in {150, 512}, brace \in BOOLEAN}
  \cup {Raw(Missing, Missing, Missing, Missing, 0, FALSE)}

\* "0.25" has 10 bytes as %.8f, "1e22" has 32.
Four == Number("raw", 0, 4)

FewShapes == {Raw(ntp, Missing, x, x, 512, TRUE) :
                ntp \in {Missing, T0}, x \in {Missing, Four}}

\* 8 is "0.123456", 17 an epoch time, 31 the widest that fits, 32 the first that does not.
WidthsOf(forward, transfer, corrected, x, y, inferred) ==
  [forward |-> forward, received |-> forward, processing |-> 8, transfer |-> transfer,
   corrected |-> corrected, x |-> x, y |-> y, motor |-> IF inferred THEN 36 ELSE 0,
   inferred |-> inferred, stray |-> TRUE]

\* Joystick values that fit their buffers, as those in [-1, 1] do.
JoystickInRange ==
  {WidthsOf(17, 8, 8, 10, 11, TRUE), WidthsOf(17, 31, 32, 31, 10, FALSE),
   WidthsOf(32, 8, 8, 10, 10, TRUE), WidthsOf(17, 32, 32, 10, 31, TRUE),
   [WidthsOf(31, 31, 32, 31, 31, TRUE) EXCEPT !.processing = 31],
   [WidthsOf(17, 8, 8, 10, 10, TRUE) EXCEPT !.processing = 32]}

\* A joystick value can be any double.
AnyJoystick == {WidthsOf(17, 8, 8, x, y, TRUE) : x \in {10, 32}, y \in {10, 32}}

\* The frames after the first may have every shape, the first one of a few.
FewThenEvery == Init /\ [][Next /\ (last.no = 0 => last'.raw \in FewShapes)]_vars
=============================================================================
