SPECIFICATION RestartFairSpec
CONSTANTS
  Channel = {c1}
  Request = {p1}
  Hook = {h1}
  None = None
  MaxNonce = 1
  MaxGen = 2
  MaxPending = 1
  MaxJoins = 1
  MaxTracks = 0
  MaxLost = 1
  MaxCrash = 2
INVARIANTS
  OldRoomsGoneWhenUp
  RecoveredLeases
PROPERTIES
  OrphansRemoved
  EveryoneIsJudged
