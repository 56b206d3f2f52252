CONSTANTS
  c1 = c1
  i1 = i1
  i2 = i2
  cw1 = cw1
  cw2 = cw2
  iw1 = iw1
  NoWorker = NoWorker
  NoEvent = NoEvent
  Events = {i1, i2, c1}
  Workers = {iw1, cw1, cw2}
  Topic <- MCTopic
  TopicsOf <- MCTopicsOf
  FailFast <- MCFailFast
  MaxAttempts = 2
  LeaseTicks = 1
  BatchLimit = 2
  Horizon = 0
  MaxFaults = 1
SPECIFICATION Spec
INVARIANTS TypeOK RowsWellFormed HandledBeforeProcessed
PROPERTIES LeaseExclusive ImplementsDeliveryQueue
