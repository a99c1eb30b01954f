SPECIFICATION Spec
CONSTANTS
  MaxBridgedFrameLen = 1024
  MaxControllerFrameLen = 512
  RawFrames <- FewShapes
  Widths <- AnyJoystick
  MaxFrames = 1
INVARIANTS
  UntimedNotRecorded
