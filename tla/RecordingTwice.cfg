SPECIFICATION Spec
CONSTANTS
  Channel = {c1}
  None = None
  MaxRec = 3
  MaxFault = 0
  MaxStop = 0
INVARIANTS
  OneRecordingPerChannel
CHECK_DEADLOCK FALSE
