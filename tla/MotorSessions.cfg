SPECIFICATION Spec
CONSTANTS
  SeqLen = 3
  AnchorDistance = 2
  Position <- Positions
  Prediction <- Predictions
  MaxSessions = 2
  MaxSamples = 5
INVARIANTS
  TypeOK
  HistoryIsLastAnchors
  WindowOfSession
  OutputWithinSession
  ModelOfOneSession
