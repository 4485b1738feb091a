SPECIFICATION Spec
CONSTANTS
  Task = {t1, t2}
  None = None
  MaxSlot = 3
  MaxOpen = 3
  MaxFaults = 1
  MaxStuck = 1
SYMMETRY Symmetry
CONSTRAINT OneTrouble
INVARIANTS
  WorkersAccounted
  RowsMatchRegistry
  LeaseOfOwnRow
  NoFeedback
PROPERTIES
  RefusedIsStopped
  DeleteReachesAll
