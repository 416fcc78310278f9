SPECIFICATION FairSpec
CONSTANTS
    Turns = {t1, t2}
    Files = {f1, f2}
    Missing = {f2}
    MaxWrites = 2
    MaxTroubles = 2
INVARIANTS TypeOK VerdictIsTrue CrashIsOwned
PROPERTIES VerificationEnds
CHECK_DEADLOCK FALSE
