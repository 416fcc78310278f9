SPECIFICATION FairSpec
CONSTANTS
  CrashWindow = 1
  CrashThreshold = 2
  RestartCap = 2
  UptimeCap = 2
  EmptyGrace = 1
  UpdateInterval = 1
  MaxUptime = 2
  StartPaused = FALSE
  ReadyByLog = FALSE
  AutoUpdateActive = TRUE
  QueueDepth = 2
  MaxDisturbances = 3
INVARIANTS TypeOK NoUnwatchedGame BudgetNotSpent StoppedIsStopped
PROPERTIES SlotSpec RecoveryIsNoticed BouncesOldBuilds
CHECK_DEADLOCK FALSE
