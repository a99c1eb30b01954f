----------------------------- MODULE PipelineMath -----------------------------
(***************************************************************************)
(* The functions of controller_pipeline.hpp that keep no state.            *)
(*                                                                         *)
(* A real number is an integer in units its caller chooses; a quotient is  *)
(* never computed, only compared.  This is exact, where the code rounds    *)
(* floats and doubles in their last places.                                *)
(*                                                                         *)
(* Definitions whose names begin with Broken are mistakes the properties   *)
(* would notice; nothing uses them.                                        *)
(***************************************************************************)
EXTENDS Integers

\* std::min, std::max and std::clamp
Smaller(a, b) == IF a <= b THEN a ELSE b
Greater(a, b) == IF a >= b THEN a ELSE b
BrokenClamp(v, lo, hi) == v
Clamp(v, lo, hi) == Smaller(hi, Greater(lo, v))

\* The remainder of C: that of -3 by 2 is -1.
Rem2(n) == IF n < 0 THEN -((-n) % 2) ELSE n % 2

\* RoundHalfToEven of n / d
BrokenRound(n, d) ==
  LET fl == n \div d
      frac == n % d
  IN IF 2 * frac < d THEN fl
     ELSE IF 2 * frac > d THEN fl + 1
     ELSE IF Rem2(fl) = 1 THEN fl + 1 ELSE fl

RoundHalfToEven(n, d) ==
  LET fl == n \div d
      frac == n % d
  IN IF 2 * frac < d THEN fl
     ELSE IF 2 * frac > d THEN fl + 1
     ELSE IF Rem2(fl) = 0 THEN fl ELSE fl + 1

\* The cast to int8_t
Int8(n) == ((n + 128) % 256) - 128

BrokenQuantize(x, scale, zero_point) == Int8(RoundHalfToEven(x, scale) + zero_point)
Quantize(x, scale, zero_point) ==
  Int8(Clamp(RoundHalfToEven(x, scale) + zero_point, -128, 127))

Dequantize(q, scale, zero_point) == scale * (q - zero_point)

-----------------------------------------------------------------------------
(* From the stick to the model's feature space: motor_inference_compute up to (u, v). *)
(* one is full deflection, limit the bend it stands for; r is the distance of the      *)
(* clamped stick from its centre.  An angle is the direction of a point.               *)

\* XyToAngles
Angles(x, y, r, one, limit) ==
  [theta |-> Clamp(r, 0, one) * limit, phi |-> <<x, y>>]

\* FeatureTransform: cos(phi) is x / r, and 1 at the centre, where theta is 0.  The result is
\* in units of 1 / (one * r).
FeatureTransform(theta, phi) == <<phi[1] * theta, phi[2] * theta>>

Feature(x, y, r, one, limit) ==
  LET cx == Clamp(x, -one, one)
      cy == Clamp(y, -one, one)
      a  == Angles(cx, cy, r, one, limit)
  IN FeatureTransform(a.theta, a.phi)
=============================================================================
