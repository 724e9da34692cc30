CONSTANTS
    Retrying = {r1, r2}
    Once = {o1}
    MAX_ATTEMPTS = 1
    MaxChanges = 2
SPECIFICATION FairSpec
CHECK_DEADLOCK FALSE
INVARIANTS
    TypeOK
    GivesUpOnFaults
    WaitingIsCaredFor
PROPERTIES
    EveryCallerEnds
