SPECIFICATION FewThenEvery
CONSTANTS
  MaxBridgedFrameLen = 1024
  MaxControllerFrameLen = 512
  RawFrames <- EveryShape
  Widths <- JoystickInRange
  MaxFrames = 2
INVARIANTS
  TypeOK
  LengthIsText
  NothingLeftOutForSpace
  FieldsAgree
PROPERTIES
  DropLeavesPayload
  OnlyEmptyClears
