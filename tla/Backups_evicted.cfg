SPECIFICATION Spec
CONSTANTS
  Backup = {}
  Restore = {r}
  None = None
  Retention = 2
  MaxClock = 4
  MaxWorlds = 4
  MaxTroubles = 0
INVARIANTS ListedBackupIsThere
CHECK_DEADLOCK FALSE
