SPECIFICATION Spec
CONSTANTS
  CommonName = CommonName
  EntityName = {lamp, fan, CommonName}
  NoName = NoName
  MaxEntities = 3
  Listing <- MCListing
  Number = {1, 2, 3, 4, 5, 6, 7}
  IdModulus = 256
SYMMETRY Symmetry
INVARIANTS
  Inv
  SavedHonoured
  EndpointsDistinct
  OwnNumber
  NoSlotLeak
PROPERTIES
  SlotsKept
