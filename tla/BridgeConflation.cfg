SPECIFICATION Safety
CONSTANTS
  Conn = {c1}
  ICU = {i1}
  MaxFrameLen = 2
  FragmentLen = {1}
  MaxMessages = 3
  MaxFragments = 1
PROPERTIES
  EveryFrameDelivered
