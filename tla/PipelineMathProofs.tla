-------------------------- MODULE PipelineMathProofs --------------------------
(***************************************************************************)
(* Proofs about rounding and quantization, for every number and scale, and *)
(* about the bend, for every position of the stick, full deflection and    *)
(* limit, in place of those that a run tries.                              *)
(***************************************************************************)
EXTENDS MCPipelineMath, TLAPS

\* What \div and % are.
LEMMA Division ==
  ASSUME NEW n \in Int, NEW d \in Nat \ {0}
  PROVE  /\ n \div d \in Int /\ n % d \in 0..(d - 1)
         /\ n = (d * (n \div d)) + (n % d)
OBVIOUS

\* The remainder of C is 0 for the even numbers, of either sign.
LEMMA Rem2Even ==
  ASSUME NEW n \in Int
  PROVE  /\ Rem2(n) = 0 => n % 2 = 0
         /\ Rem2(n) # 0 => (n + 1) % 2 = 0
BY DEF Rem2

\* RoundHalfToEven, of any quotient, is off by half at most, and even where it is off by half.
THEOREM RoundsToNearest ==
  ASSUME NEW a \in Int, NEW d \in Nat \ {0}
  PROVE  LET n == RoundHalfToEven(a, d)
             rest == a - n * d
         IN /\ n \in Int /\ 2 * rest \in -d..d
            /\ 2 * rest \in {-d, d} => n % 2 = 0
<1> DEFINE fl == a \div d
           frac == a % d
           n == RoundHalfToEven(a, d)
<1>1. fl \in Int /\ frac \in 0..(d - 1) /\ a = d * fl + frac
  BY Division
<1>2. n = IF 2 * frac < d THEN fl
          ELSE IF 2 * frac > d THEN fl + 1
          ELSE IF Rem2(fl) = 0 THEN fl ELSE fl + 1
  BY DEF RoundHalfToEven
<1> HIDE DEF fl, frac, n
<1>3. a - fl * d = frac /\ a - (fl + 1) * d = frac - d
  BY <1>1
<1>4. (Rem2(fl) = 0 => fl % 2 = 0) /\ (Rem2(fl) # 0 => (fl + 1) % 2 = 0)
  BY <1>1, Rem2Even
<1> DEFINE rest == a - n * d
<1>5. CASE n = fl /\ 2 * frac <= d /\ (2 * frac = d => fl % 2 = 0)
  <2>1. rest = frac
    BY <1>3, <1>5
  <2> HIDE DEF rest
  <2>2. QED BY <1>1, <1>5, <2>1 DEF n, rest
<1>6. CASE n = fl + 1 /\ 2 * frac >= d /\ (2 * frac = d => (fl + 1) % 2 = 0)
  <2>1. rest = frac - d
    BY <1>3, <1>6
  <2> HIDE DEF rest
  <2>2. QED BY <1>1, <1>6, <2>1 DEF n, rest
<1>7. QED BY <1>1, <1>2, <1>4, <1>5, <1>6

\* A product with a natural number is monotonic.
LEMMA Monotonic ==
  ASSUME NEW d \in Nat, NEW i \in Int, NEW j \in Int, i <= j
  PROVE  d * i <= d * j /\ d * i \in Int /\ d * j \in Int
<1>1. j - i \in Nat
  OBVIOUS
<1>2. d * (j - i) \in Nat
  BY <1>1
<1>3. d * j = d * i + d * (j - i)
  OBVIOUS
<1>4. d * i \in Int /\ d * j \in Int
  OBVIOUS
<1>5. QED BY <1>2, <1>3, <1>4

\* Quantize, whatever the scale and the zero point, yields the int8 whose value is nearest, or
\* the end of the range on the number's side.
THEOREM QuantizesNearest ==
  ASSUME NEW a \in Int, NEW d \in Nat \ {0}, NEW zp \in Int
  PROVE  LET q == Quantize(a, d, zp)
             rest == a - Dequantize(q, d, zp)
         IN /\ q \in -128..127
            /\ 2 * rest <= d \/ q = 127
            /\ 2 * rest >= -d \/ q = -128
<1> DEFINE n == RoundHalfToEven(a, d)
           z == n + zp
           c == Clamp(z, -128, 127)
           q == Quantize(a, d, zp)
           rest == a - Dequantize(q, d, zp)
           off0 == a - n * d
<1>1. n \in Int /\ 2 * off0 \in -d..d /\ off0 \in Int
  BY RoundsToNearest
<1>2. q = Int8(c)
  BY DEF Quantize
<1> HIDE DEF n
<1>3. z \in Int
  BY <1>1
<1> HIDE DEF z
<1>4. /\ c \in -128..127
      /\ z \in -128..127 => c = z
      /\ z > 127 => c = 127
      /\ z < -128 => c = -128
  BY <1>3 DEF Clamp, Smaller, Greater
<1> HIDE DEF c
<1>5. q = c
  BY <1>2, <1>4 DEF Int8
<1> HIDE DEF q
<1>6. rest = a - d * (q - zp)
  BY DEF Dequantize
<1> DEFINE k == q - zp
<1>7. k \in Int /\ n * d = d * n
  BY <1>1, <1>4, <1>5
<1>8. CASE z \in -128..127
  <2>1. k = n
    BY <1>1, <1>4, <1>5, <1>8 DEF z
  <2>2. rest = off0
    BY <1>6, <1>7, <2>1
  <2> HIDE DEF rest, off0
  <2>3. 2 * rest <= d /\ 2 * rest >= -d
    BY <1>1, <2>2
  <2>4. QED BY <1>4, <1>5, <2>3 DEF rest, q
<1>9. CASE z > 127
  <2>1. q = 127 /\ k + 1 <= n
    BY <1>1, <1>4, <1>5, <1>9 DEF z
  <2>2. d * (k + 1) <= d * n /\ d * (k + 1) \in Int /\ d * n \in Int
    BY <1>1, <1>7, <2>1, Monotonic
  <2>3. d * (k + 1) = d * k + d
    BY <1>7
  <2>4. 2 * rest >= -d
    <3> DEFINE dn == d * n
               dk == d * k
    <3>1. off0 = a - dn /\ rest = a - dk /\ dn \in Int /\ dk \in Int /\ dk + d <= dn
      BY <1>6, <1>7, <2>2, <2>3
    <3> HIDE DEF dn, dk, off0, rest
    <3>2. QED BY <1>1, <3>1
  <2>5. QED BY <1>4, <1>5, <2>1, <2>4 DEF rest, q
<1>10. CASE z < -128
  <2>1. q = -128 /\ n <= k - 1
    BY <1>1, <1>4, <1>5, <1>10 DEF z
  <2>2. d * n <= d * (k - 1) /\ d * (k - 1) \in Int /\ d * n \in Int
    BY <1>1, <1>7, <2>1, Monotonic
  <2>3. d * (k - 1) = d * k - d
    BY <1>7
  <2>4. 2 * rest <= d
    <3> DEFINE dn == d * n
               dk == d * k
    <3>1. off0 = a - dn /\ rest = a - dk /\ dn \in Int /\ dk \in Int /\ dn <= dk - d
      BY <1>6, <1>7, <2>2, <2>3
    <3> HIDE DEF dn, dk, off0, rest
    <3>2. QED BY <1>1, <3>1
  <2>5. QED BY <1>4, <1>5, <2>1, <2>4 DEF rest, q
<1>11. QED BY <1>3, <1>8, <1>9, <1>10

\* Rearranging products.
LEMMA Products ==
  ASSUME NEW a \in Int, NEW b \in Int, NEW c \in Int
  PROVE  /\ a * b \in Int /\ a * b = b * a /\ a * a >= 0
         /\ (a * b) * c = a * (b * c)
         /\ (a + b) * c = (a * c) + (b * c)
         /\ a \in Nat /\ b \in Nat => a * b \in Nat
OBVIOUS

\* A product with itself, of two factors.
LEMMA SquareOfProduct ==
  ASSUME NEW a \in Int, NEW b \in Int
  PROVE  (a * b) * (a * b) = (a * a) * (b * b)
<1>1. (a * b) * (a * b) = a * (b * (a * b))
  BY Products
<1>2. b * (a * b) = a * (b * b)
  BY Products
<1>3. (a * a) * (b * b) = a * (a * (b * b))
  BY Products
<1>4. QED BY <1>1, <1>2, <1>3

\* r is the distance of the clamped stick from its centre.
IsRadius(r, px, py, one) ==
  r * r = (Clamp(px, -one, one) * Clamp(px, -one, one))
            + (Clamp(py, -one, one) * Clamp(py, -one, one))

\* The bend of a stick, wherever it stands: it has the size of the deflection, up to full
\* deflection, and is never more than the limit; and it has the clamped stick's direction.
THEOREM BendOfStick ==
  ASSUME NEW px \in Int, NEW py \in Int, NEW r \in Nat, NEW one \in Nat, NEW limit \in Nat,
         IsRadius(r, px, py, one)
  PROVE  LET cx == Clamp(px, -one, one)
             cy == Clamp(py, -one, one)
             f == Feature(px, py, r, one, limit)
             deflection == Smaller(r, one) * limit * r
         IN /\ (f[1] * f[1]) + (f[2] * f[2]) = deflection * deflection
            /\ deflection <= one * limit * r
            /\ f[1] * cy = f[2] * cx
            /\ f[1] * cx >= 0 /\ f[2] * cy >= 0
<1> DEFINE cx == Clamp(px, -one, one)
           cy == Clamp(py, -one, one)
           m == Smaller(r, one)
           theta == m * limit
           f == Feature(px, py, r, one, limit)
           deflection == m * limit * r
<1>1. cx \in Int /\ cy \in Int /\ r * r = (cx * cx) + (cy * cy)
  BY DEF IsRadius, Clamp, Smaller, Greater
<1>2. m \in Nat /\ m <= one /\ Clamp(r, 0, one) = m
  BY DEF Clamp, Smaller, Greater
<1>3. f[1] = cx * theta /\ f[2] = cy * theta
  <2>1. f = FeatureTransform(Clamp(r, 0, one) * limit, <<cx, cy>>)
    BY DEF Feature, Angles
  <2> HIDE DEF cx, cy, m, f
  <2>2. f = <<cx * theta, cy * theta>>
    BY <1>2, <2>1 DEF FeatureTransform
  <2>3. QED BY <2>2
<1> HIDE DEF cx, cy, m, f
<1>4. theta \in Nat
  BY <1>2, Products
<1>5. deflection = theta * r
  OBVIOUS
<1> HIDE DEF theta
<1>6. (f[1] * f[1]) + (f[2] * f[2]) = deflection * deflection
  <2>1. f[1] * f[1] = (cx * cx) * (theta * theta) /\ f[2] * f[2] = (cy * cy) * (theta * theta)
    BY <1>1, <1>3, <1>4, SquareOfProduct
  <2>2. deflection * deflection = (theta * theta) * (r * r)
    BY <1>4, <1>5, SquareOfProduct
  <2> DEFINE a == cx * cx
             b == cy * cy
             t == theta * theta
  <2>3. a \in Int /\ b \in Int /\ t \in Int
    BY <1>1, <1>4, Products
  <2> HIDE DEF a, b, t
  <2>4. (a + b) * t = (a * t) + (b * t) /\ (a + b) * t = t * (a + b)
    BY <2>3, Products
  <2>5. r * r = a + b
    BY <1>1 DEF a, b
  <2> HIDE DEF deflection
  <2>6. f[1] * f[1] = a * t /\ f[2] * f[2] = b * t /\ deflection * deflection = t * (a + b)
    BY <2>1, <2>2, <2>5 DEF a, b, t
  <2>7. QED BY <2>4, <2>6
<1>7. deflection <= one * limit * r
  <2> DEFINE k == limit * r
  <2>1. k \in Nat
    BY Products
  <2>2. deflection = m * k /\ one * limit * r = one * k
    <3>1. (m * limit) * r = m * (limit * r) /\ (one * limit) * r = one * (limit * r)
      BY <1>2, Products
    <3>2. QED BY <3>1
  <2> HIDE DEF k, deflection
  <2>3. k * m <= k * one
    BY <1>2, <2>1, Monotonic
  <2>4. k * m = m * k /\ k * one = one * k
    BY <1>2, <2>1, Products
  <2>5. QED BY <2>2, <2>3, <2>4
<1>8. f[1] * cy = f[2] * cx
  <2>1. (cx * theta) * cy = cx * (theta * cy) /\ (cy * theta) * cx = (theta * cy) * cx
    BY <1>1, <1>4, Products
  <2>2. theta * cy \in Int
    BY <1>1, <1>4, Products
  <2>3. cx * (theta * cy) = (theta * cy) * cx
    BY <1>1, <2>2, Products
  <2>4. QED BY <1>3, <2>1, <2>3
<1>9. ASSUME NEW c \in Int PROVE (c * theta) * c >= 0
  <2>1. (c * theta) * c = theta * (c * c)
    <3>1. c * theta = theta * c /\ (theta * c) * c = theta * (c * c)
      BY <1>4, Products
    <3>2. QED BY <3>1
  <2>2. c * c \in Nat
    BY Products
  <2>3. theta * (c * c) \in Nat
    BY <1>4, <2>2, Products
  <2>4. QED BY <2>1, <2>3
<1>10. f[1] * cx >= 0 /\ f[2] * cy >= 0
  BY <1>1, <1>3, <1>9
<1>11. QED BY <1>6, <1>7, <1>8, <1>10 DEF cx, cy, m, f

-----------------------------------------------------------------------------
(* What the run checks, at the scale of the code's model. *)

tie == InputScale \div 2

LEMMA ScaleIsEven == InputScale \in Nat \ {0} /\ tie \in Nat /\ InputScale = 2 * tie
BY SMT DEF InputScale, tie

\* The variables are numbers, however many.
Numbers == half \in Int /\ off \in Int

LEMMA InitNumbers == Init => Numbers
BY DEF Init, Numbers, HalfSteps

LEMMA NextNumbers == Numbers /\ [Next]_vars => Numbers'
BY DEF Numbers, Next, NextNumber, NextStick, vars, HalfSteps

LEMMA NumberRounds == Numbers => RoundsHalfToEven
<1> SUFFICES ASSUME Numbers PROVE RoundsHalfToEven
  OBVIOUS
<1> DEFINE n == RoundHalfToEven(x, InputScale)
           rest == x - n * InputScale
<1>1. x \in Int
  BY ScaleIsEven DEF Numbers, x, tie
<1>2. /\ n \in Int /\ 2 * rest \in -InputScale..InputScale
      /\ 2 * rest \in {-InputScale, InputScale} => n % 2 = 0
  BY <1>1, ScaleIsEven, RoundsToNearest
<1>3. rest \in Int
  BY <1>1, <1>2, ScaleIsEven
<1> HIDE DEF n, rest
<1>4. rest \in -tie..tie /\ (rest \in {-tie, tie} => n % 2 = 0)
  BY <1>2, <1>3, ScaleIsEven
<1>5. QED BY <1>4 DEF RoundsHalfToEven, n, rest, tie

LEMMA NumberQuantizes == Numbers => QuantizesToNearest
<1> SUFFICES ASSUME Numbers PROVE QuantizesToNearest
  OBVIOUS
<1> DEFINE q == Quantize(x, InputScale, InputZeroPoint)
           back == Dequantize(q, InputScale, InputZeroPoint)
<1>1. x \in Int /\ InputZeroPoint \in Int
  BY ScaleIsEven DEF Numbers, x, tie, InputZeroPoint
<1>2. /\ q \in -128..127
      /\ 2 * (x - back) <= InputScale \/ q = 127
      /\ 2 * (x - back) >= -InputScale \/ q = -128
  BY <1>1, ScaleIsEven, QuantizesNearest
<1>3. back \in Int
  BY <1>1, <1>2, ScaleIsEven DEF Dequantize
<1> HIDE DEF q, back
<1>4. /\ x <= back + tie \/ q = 127
      /\ x >= back - tie \/ q = -128
  BY <1>1, <1>2, <1>3, ScaleIsEven
<1>5. QED BY <1>2, <1>4 DEF QuantizesToNearest, q, back, tie

\* RoundsHalfToEven, of the specification's numbers at the code's scale (RoundsToNearest is
\* the same for every quotient).
THEOREM RunRounds == Spec => []RoundsHalfToEven
BY InitNumbers, NextNumbers, NumberRounds, PTL DEF Spec

\* QuantizesToNearest, likewise (QuantizesNearest is the same for every number, scale and
\* zero point).
THEOREM RunQuantizes == Spec => []QuantizesToNearest
BY InitNumbers, NextNumbers, NumberQuantizes, PTL DEF Spec

-----------------------------------------------------------------------------
(* The stick of the run. *)

LEMMA OneIsNat == One \in Nat /\ ThetaLimit \in Nat
BY DEF One, ThetaLimit

\* The stick stands somewhere.
Somewhere == stick \in Int \X Int

LEMMA InitSomewhere == Init => Somewhere
BY DEF Init, Somewhere

LEMMA NextSomewhere == Somewhere /\ [Next]_vars => Somewhere'
<1> SUFFICES ASSUME Somewhere, [Next]_vars PROVE Somewhere'
  OBVIOUS
<1>1. CASE NextStick
  <2>1. stick' \in (-16..16) \X (-16..16)
    BY <1>1 DEF NextStick, Sticks
  <2>2. QED BY <2>1 DEF Somewhere
<1>2. CASE NextNumber
  BY <1>2 DEF NextNumber, Somewhere
<1>3. CASE UNCHANGED vars
  BY <1>3 DEF vars, Somewhere
<1>4. QED BY <1>1, <1>2, <1>3 DEF Next

LEMMA StickBends == Somewhere => BendWithinLimit
<1> SUFFICES ASSUME Somewhere, NEW r \in Radius(stick)
             PROVE  LET f == Feature(stick[1], stick[2], r, One, ThetaLimit)
                        bend == f[1] * f[1] + f[2] * f[2]
                        deflection == Smaller(r, One) * ThetaLimit * r
                    IN /\ bend = deflection * deflection
                       /\ f[1] * In(stick[2]) = f[2] * In(stick[1])
                       /\ f[1] * In(stick[1]) >= 0 /\ f[2] * In(stick[2]) >= 0
  BY DEF BendWithinLimit
<1>1. stick[1] \in Int /\ stick[2] \in Int
  BY DEF Somewhere
<1>2. r \in Nat /\ r * r = (In(stick[1]) * In(stick[1])) + (In(stick[2]) * In(stick[2]))
  BY OneIsNat DEF Radius
<1> DEFINE px == stick[1]
           py == stick[2]
           f == Feature(px, py, r, One, ThetaLimit)
           deflection == Smaller(r, One) * ThetaLimit * r
<1>3. px \in Int /\ py \in Int /\ IsRadius(r, px, py, One)
  BY <1>1, <1>2 DEF In, IsRadius
<1> HIDE DEF px, py
<1>4. /\ (f[1] * f[1]) + (f[2] * f[2]) = deflection * deflection
      /\ f[1] * Clamp(py, -One, One) = f[2] * Clamp(px, -One, One)
      /\ f[1] * Clamp(px, -One, One) >= 0 /\ f[2] * Clamp(py, -One, One) >= 0
  <2>1. r \in Nat
    BY <1>2
  <2>2. LET cx == Clamp(px, -One, One)
            cy == Clamp(py, -One, One)
            g == Feature(px, py, r, One, ThetaLimit)
            d == Smaller(r, One) * ThetaLimit * r
        IN /\ (g[1] * g[1]) + (g[2] * g[2]) = d * d
           /\ d <= One * ThetaLimit * r
           /\ g[1] * cy = g[2] * cx
           /\ g[1] * cx >= 0 /\ g[2] * cy >= 0
    BY <1>3, <2>1, OneIsNat, BendOfStick, Zenon
  <2>3. QED BY <2>2
<1> HIDE DEF f, deflection
<1>5. QED BY <1>4 DEF In, px, py, f, deflection

\* BendWithinLimit, of the specification's positions at the code's limit (BendOfStick is the
\* same for every position, scale and limit).
THEOREM RunBends == Spec => []BendWithinLimit
BY InitSomewhere, NextSomewhere, StickBends, PTL DEF Spec
===============================================================================
