SPECIFICATION FairSpec
CONSTANTS
  h1 = h1
  h2 = h2
  s = s
  n = n
  None = None
  Unnamed = Unnamed
  Host <- MCHost
  SubDevice <- MCSubDevice
  Label = {n}
  Delay = 2
  Command <- MCAdding
  MaxInbox = 1
PROPERTY DiscoveredSaved
