SPECIFICATION FairSpec
CONSTANTS
  Frame <- MCFrame
  Batch <- MCBatch
  Name = {"address", "announced"}
  Address = "address"
  ServerName = "announced"
INVARIANTS
  NoiseMatchesState
  WatchdogArmed
  RetryArmed
  RetryHarmless
  AvailabilityExact
  FramesDrained
  Inv
PROPERTIES
  HandshakeEnds
  Reconnects
  ImplementsLink
