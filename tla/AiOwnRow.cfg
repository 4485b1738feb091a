SPECIFICATION Spec
CONSTANTS
  Task = {t1, t2}
  None = None
  MaxSlot = 2
  MaxOpen = 3
  MaxFaults = 0
  MaxStuck = 1
SYMMETRY Symmetry
PROPERTIES
  OnlyOwnRowClosed
