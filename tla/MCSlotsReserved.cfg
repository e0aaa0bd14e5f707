SPECIFICATION Spec
CONSTANTS
  CommonName = CommonName
  EntityName = {lamp, fan, CommonName}
  NoName = NoName
  MaxEntities = 2
  Listing <- MCListing
  Number = {1, 2, 3, 4, 5, 6, 7}
  IdModulus = 256
INVARIANT
  ReservedNumberUnused
