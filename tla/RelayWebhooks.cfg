SPECIFICATION Spec
CONSTANTS
  Channel = {c1}
  Request = {p1}
  Hook = {h1, h2}
  None = None
  MaxNonce = 1
  MaxGen = 1
  MaxPending = 2
  MaxJoins = 1
  MaxTracks = 2
  MaxLost = 1
SYMMETRY Symmetry
INVARIANTS
  TypeOK
  AdmittedOrPending
  HolderNotStruckUnjustly
