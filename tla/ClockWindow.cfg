SPECIFICATION Spec
CONSTANTS
  Window = 2
  Transfer <- Transfers
  MaxTime = 4
  MaxSamples = 3
INVARIANTS
  TypeOK
  NeverNegative
  WindowComplete
PROPERTIES
  ImplementsRollingMinimum
