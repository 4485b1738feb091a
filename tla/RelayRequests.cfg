SPECIFICATION Spec
CONSTANTS
  Channel = {c1}
  Request = {p1, p2}
  Hook = {h1}
  None = None
  MaxNonce = 2
  MaxGen = 2
  MaxPending = 1
  MaxJoins = 1
  MaxTracks = 0
  MaxLost = 0
SYMMETRY Symmetry
INVARIANTS
  LeaseIsCurrent
  PasswordStillValid
  LeaseHeldDuringAwait
  NoOldGenerationRoom
PROPERTIES
  NoReturn
  PublishSparesHolder
  ImplementsLedger
