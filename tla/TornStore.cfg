SPECIFICATION Spec
CONSTANTS
    Process = {p1, p2}
    Name = {n1, n2}
    Old = old
    Held <- Logins
    None = none
    Absent = absent
    Torn = torn
    Overlap = TRUE
INVARIANTS
    InterruptedWriteLeavesWhole
CHECK_DEADLOCK FALSE
