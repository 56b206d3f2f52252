SPECIFICATION Spec
CONSTANTS
  Sessions = {s1}
  Counts = {0, 1}
  SignalBuffer = 1
  EventBuffer = 2
  MaxChanges = 2
PROPERTY
  RequestsReturn
CHECK_DEADLOCK FALSE
