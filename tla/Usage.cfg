SPECIFICATION Spec
CONSTANTS
  Subject = {s1}
  Channel = {c1}
  ChannelOf <- OneChannel
  Live = {l1}
  None = None
  MaxSeconds = 1
  MaxAttempts = 2
  BatchSize = 1
  MaxTime = 3
  MaxJoin = 2
  MaxCrash = 1
INVARIANTS
  TypeOK
  OnePeriodPerConnection
  NothingForgotten
PROPERTIES
  EverySessionSettled
  ImplementsMeter
CHECK_DEADLOCK FALSE
