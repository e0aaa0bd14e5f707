SPECIFICATION Spec
CONSTANTS
  Listing <- MCEqualKeys
  Sample <- MCSample
  Order <- MCOrder
  Suffixed <- MCSuffixed
  MaxStates = 2
  MaxOrders = 1
PROPERTY CreditedToOwner
