SPECIFICATION Safety
CONSTANTS
  Conn = {c1, c2}
  ICU = {i1}
  MaxFrameLen = 2
  FragmentLen = {0, 1, 2}
  MaxMessages = 2
  MaxFragments = 3
SYMMETRY Symmetry
INVARIANTS
  WholeFramesOnly
