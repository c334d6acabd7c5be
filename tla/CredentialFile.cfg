SPECIFICATION Spec
CONSTANTS
    Process = {p1, p2, p3}
    Name = {n1, n2}
    Old = old
    Held <- Logins
    None = none
    Absent = absent
    Torn = torn
    Overlap = FALSE
INVARIANTS
    TypeOK
    PairMatches
    LoggedOutIsGone
    StrandedOnlyByFailure
    FailsOnlyByFault
PROPERTIES
    KeepsStore
SYMMETRY Symmetry
CHECK_DEADLOCK FALSE
