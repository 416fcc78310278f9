SPECIFICATION FairSpec
CONSTANTS
  Name = {n1, n2}
  Req = {r1, r2}
  None = None
  ServerCap = 1
  LoadCap = 1
  MaxTroubles = 2
INVARIANTS TypeOK ServerCapHolds OnlyConfirmedVolumesGo AnswersHold
PROPERTIES StrandedComesBack
CHECK_DEADLOCK FALSE
