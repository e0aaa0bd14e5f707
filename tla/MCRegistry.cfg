SPECIFICATION FairSpec
CONSTANTS
  h1 = h1
  h2 = h2
  s = s
  n = n
  None = None
  Unnamed = Unnamed
  Host <- MCHost
  SubDevice <- MCSubDevice
  Label = {n}
  Delay = 2
  Command <- MCCommand
  MaxInbox = 2
INVARIANTS
  Inv
  ConnectionsMatch
  Reachable
  DurableKept
  SavedWhenIdle
  AddHonoured
  RestartAsked
PROPERTIES
  EventuallySaved
