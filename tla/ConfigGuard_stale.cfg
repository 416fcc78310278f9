SPECIFICATION FairSpec
CONSTANTS
    Turns = {t1}
    Files = {f1}
    Missing = {}
    MaxWrites = 1
    MaxTroubles = 0
PROPERTIES HealthyMeansUp
CHECK_DEADLOCK FALSE
