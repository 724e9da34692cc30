CONSTANTS
    Peers = {p1, p2}
    CallCount = 2
    CallFrequency = 2
    MaxTime = 5
SPECIFICATION Spec
CHECK_DEADLOCK TRUE
INVARIANTS
    TypeOK
    BudgetHeld
    WindowBound
PROPERTY
    KeepsBudget
