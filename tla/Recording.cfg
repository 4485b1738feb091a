SPECIFICATION FairSpec
CONSTANTS
  Channel = {c1, c2}
  None = None
  MaxRec = 2
  MaxFault = 1
  MaxStop = 1
INVARIANTS
  IndexedIsActive
  ListedIsComplete
PROPERTIES
  ListedStays
  ShutdownStopsAll
  StopsEnd
CHECK_DEADLOCK FALSE
