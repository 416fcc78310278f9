SPECIFICATION Spec
CONSTANTS
    MaxTurns = 3
    MaxRounds = 2
    Calls = {1, 2}
    Trigger = 5
    Target = 4
    ResultSize = 2
INVARIANTS TypeOK WellFormed NewestIsStoppable
PROPERTIES CommitExtends StopReadsAsStop
CHECK_DEADLOCK FALSE
