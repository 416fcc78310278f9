SPECIFICATION Spec
CONSTANTS
  Flow = {f1, f2}
  None = None
  MaxKey = 4
  MaxWorlds = 6
  MaxTroubles = 1
INVARIANTS TypeOK ReleasedIsRecoverable RoundTrip NoOrphans
CHECK_DEADLOCK FALSE
