CONSTANTS
  Servers = {s1}
  CrashWindow = 2
  CrashThreshold = 1
  UnreachableTicks = 1
  PressureTicks = 1
  Cooldown = 2
  QueueDepth = 1
  StormMax = 1
  StormWindow = 3
  GatewayWait = 1
  MaxRestarts = 1
  MaxChanges = 2
  None = None
SPECIFICATION FairSpec
INVARIANTS TypeOK WindowIsHonest StormGuard
PROPERTIES WreckIsHeardOf
