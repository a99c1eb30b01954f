SPECIFICATION Spec
CONSTANTS
  Conn = {c1}
  ICU = {i1, i2}
  MaxFrameLen = 1
  FragmentLen = {0, 1}
  MaxMessages = 3
  MaxFragments = 1
INVARIANTS
  OnlyNews
  NeverForgotten
PROPERTIES
  CatchesUp
  RefinesRelay
