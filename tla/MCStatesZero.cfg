SPECIFICATION Spec
CONSTANTS
  Listing <- MCSensor
  Sample <- MCSample
  Order <- MCOrder
  Suffixed <- MCSuffixed
  MaxStates = 2
  MaxOrders = 1
INVARIANT ShownTrue
