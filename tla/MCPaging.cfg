CONSTANTS
  Ids = {1, 2, 3}
  Sorts = {"recent_activity", "latest"}
  Filters = {"all", "open"}
  Limits = {1}
  MaxClock = 2
SPECIFICATION Spec
INVARIANTS TypeOK SteadyShownOnce SteadyInOrder NothingTwice
PROPERTY WalkEnds
