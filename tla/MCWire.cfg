SPECIFICATION Spec
CONSTANTS
  Bits = 2
  Width = 7
  Key = {1, 2}
  UpMessage <- MCUp
  DownMessage <- MCDown
  MaxSent = 2
INVARIANTS
  SameKeyOnly
  ReadAsWritten
PROPERTIES
  InOrder
  Arrives
CHECK_DEADLOCK FALSE
