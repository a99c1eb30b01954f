SPECIFICATION Spec
CONSTANTS
  WindowSize = 3
  DblMax = 100
  Transfer <- TransferTimes
  Processing <- ProcessingTimes
  MaxFrames = 7
INVARIANTS
  TypeOK
  ReportExtremes
  ReportSums
  WindowsTile
