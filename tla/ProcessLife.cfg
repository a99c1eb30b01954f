SPECIFICATION Spec
CONSTANTS
  Args <- ArgLists
  MaxFrames = 3
  MaxFaults = 3
INVARIANTS
  TypeOK
  RowsSurvive
  MarkerMeansFrame
  ServedWhenReady
PROPERTIES
  KeepsCapture
  DiagnosticsNeverFatal
  StopIsHonoured
  ServesAgain
  MarkerGoesLow
