SPECIFICATION FairSpec
CONSTANTS
    N = 2
    Pool = 2
    Number <- Overlapping
    Delays <- Asked
    Requests = 1
    MinInterval = 2
    Burst = 2
    MaxRetryAfter = 2
    Quiet = 1
    Horizon = 2
INVARIANTS
    TypeOK
    NeverTooFast
    NoOversleep
    ReportIsWhole
    OwnStateOnOneRoute
PROPERTIES
    QuietIsKept
    Termination
