SPECIFICATION FairSpec
CONSTANTS
  Backup = {b}
  Restore = {r}
  None = None
  Retention = 2
  MaxClock = 4
  MaxWorlds = 4
  MaxTroubles = 1
INVARIANTS TypeOK NewestRetained UndisturbedIsWhole RestoreIsExact
PROPERTIES SavesComeBack
CHECK_DEADLOCK FALSE
