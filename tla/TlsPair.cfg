CONSTANTS
    Nodes = {n1}
    Lnds <- MCLnds
    MinVersion <- MCMinVersion
    MaxStarts = 2
    MaxDeletes = 0
    MaxCalls = 1
SPECIFICATION Spec
CHECK_DEADLOCK FALSE
INVARIANT
    PairExists
