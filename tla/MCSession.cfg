SPECIFICATION SessionFairSpec
CONSTANTS
  Frame <- NodeFrame
  Batch = {}
  Name = {"address", "announced"}
  Address = "address"
  ServerName = "announced"
  Config <- MCConfig
  SubName = {"kitchen", "porch"}
  MaxFaults = 2
INVARIANTS
  EndpointsFresh
  SubOnlineWithParent
  RetainedHonest
  Announced
  NothingLeftBehind
PROPERTIES
  Recovers
