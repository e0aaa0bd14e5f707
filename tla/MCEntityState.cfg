SPECIFICATION Spec
CONSTANTS
  Listing <- MCListing
  Sample <- MCSample
  Order <- MCOrder
  Suffixed <- MCSuffixed
  MaxStates = 2
  MaxOrders = 1
INVARIANTS
  ShownExact
  EchoShown
  PublishedFresh
  OwnObjectId
PROPERTIES
  ToggleFlips
  Settles
