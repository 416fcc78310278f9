SPECIFICATION FairSpec
CONSTANTS
  Task = {t1, t2}
  Reconciler = reconciler
  TTL = 2
  Ceiling = 1
  MaxFaults = 1
  MaxExits = 1
INVARIANTS NoTaskStranded AccountedFor
PROPERTIES TaskIsSettled
CHECK_DEADLOCK FALSE
