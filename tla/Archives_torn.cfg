SPECIFICATION Spec
CONSTANTS
  Flow = {f1}
  None = None
  MaxKey = 3
  MaxWorlds = 5
  MaxTroubles = 1
INVARIANT ArchivedMeansSaved
CHECK_DEADLOCK FALSE
