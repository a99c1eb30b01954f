SPECIFICATION Spec
INVARIANTS
  RoundsHalfToEven
  QuantizesToNearest
  BendWithinLimit
