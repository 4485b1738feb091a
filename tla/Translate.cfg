SPECIFICATION Spec
CONSTANTS
  Hangover = 2
  Prebuffer = 1
  MaxSession = 2
  MaxFrame = 4
  MaxOutput = 1
  MaxCancel = 2
INVARIANTS
  GateIsExact
  OutputKept
  EverySocketKnown
PROPERTIES
  LossIsActedUpon
  CancelledEnds
CHECK_DEADLOCK FALSE
