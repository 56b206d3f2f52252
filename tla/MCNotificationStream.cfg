SPECIFICATION Spec
CONSTANTS
  Sessions = {s1, s2}
  Counts = {0, 1}
  SignalBuffer = 1
  EventBuffer = 2
  MaxChanges = 2
INVARIANTS
  TypeOK
  NoDeafSession
  FreshAtRest
SYMMETRY Symmetry
CHECK_DEADLOCK FALSE
