---------------------------- MODULE MCPipelineMath ----------------------------
(***************************************************************************)
(* PipelineMath over the inputs that can make a difference: from -90 to 90 *)
(* degrees, whole and half quantization steps and what is next to them;    *)
(* and stick positions, in and beyond range, whose radius is whole.        *)
(***************************************************************************)
EXTENDS PipelineMath, FiniteSets

\* kInputScale in units of half of 10^-7 degrees, so that half a step is whole, and
\* kInputZeroPoint.
InputScale == 8802070
InputZeroPoint == -7
HalfSteps == 408

\* Full deflection in units of the stick, and kThetaLimitDeg.
One == 12
ThetaLimit == 90

VARIABLES half, off,   \* a number: half steps, and what is added to them
          stick        \* a position of the stick

vars == <<half, off, stick>>
x == half * (InputScale \div 2) + off

\* The distance from the centre, of a stick that is clamped, if it is whole.
In(v) == Clamp(v, -One, One)
Radius(p) == {r \in 0..2 * One : r * r = In(p[1]) * In(p[1]) + In(p[2]) * In(p[2])}
Sticks == {p \in (-16..16) \X (-16..16) : Radius(p) # {}}

Init == half = -HalfSteps /\ off = -1 /\ stick = <<0, 0>>

NextNumber ==
  /\ stick = <<0, 0>> /\ UNCHANGED stick
  /\ \/ off < 1 /\ off' = off + 1 /\ UNCHANGED half
     \/ off = 1 /\ off' = -1 /\ half' = IF half < HalfSteps THEN half + 1 ELSE -HalfSteps

NextStick == half = -HalfSteps /\ stick' \in Sticks /\ UNCHANGED <<half, off>>

Next == NextNumber \/ NextStick

Spec == Init /\ [][Next]_vars

-----------------------------------------------------------------------------
(* What must hold. *)

\* RoundHalfToEven rounds like NumPy's round: to the nearest integer, and to the even one of
\* two that are equally near, of negative numbers too, whose remainders in C are negative.
RoundsHalfToEven ==
  LET n == RoundHalfToEven(x, InputScale)
      rest == x - n * InputScale
      tie == InputScale \div 2
  IN /\ rest \in -tie..tie
     /\ rest \in {-tie, tie} => n % 2 = 0

\* Quantize yields the int8 whose dequantized value is nearest: within half a step of x where
\* int8 reaches, and the end of its range where it does not, never the other end.
QuantizesToNearest ==
  LET q == Quantize(x, InputScale, InputZeroPoint)
      back == Dequantize(q, InputScale, InputZeroPoint)
      tie == InputScale \div 2
  IN /\ q \in -128..127
     /\ x <= back + tie \/ q = 127
     /\ x >= back - tie \/ q = -128

\* The bend asked of the robot is never more than the limit, the corners of the stick's square
\* and positions outside of it included; it is the limit from full deflection on and grows
\* with the deflection up to there; and its direction is that of the clamped stick.
BendWithinLimit ==
  \A r \in Radius(stick) :
    LET f == Feature(stick[1], stick[2], r, One, ThetaLimit)
        bend == f[1] * f[1] + f[2] * f[2]
        deflection == Smaller(r, One) * ThetaLimit * r
    IN /\ bend = deflection * deflection
       /\ f[1] * In(stick[2]) = f[2] * In(stick[1])
       /\ f[1] * In(stick[1]) >= 0 /\ f[2] * In(stick[2]) >= 0
=============================================================================
