SPECIFICATION FairSpec
CONSTANTS
    sales = sales
    costs = costs
    staff = staff
    upper = upper
    lower = lower
    tool = tool
    Order <- OrderDef
    Boundary <- BoundaryDef
    Wants <- WantsDef
    Updater <- UpdaterDef
    Batch <- BatchDef
    MaxActive = 2
    MaxJobs = 4
    MaxEdits = 1
    MaxFaults = 1
    None = None
INVARIANTS
    TypeOK
    DownloadedOnce
PROPERTIES
    EditsWholeData
    EnsureSettles
CHECK_DEADLOCK FALSE
