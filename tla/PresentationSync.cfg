SPECIFICATION FairSpec
CONSTANTS
    title = title
    width = width
    verified = verified
    plain = plain
    changed = changed
    granted = granted
    Field <- FieldDef
    Layout <- LayoutDef
    Value <- ValueDef
    Badge = verified
    Blank = plain
    Granted = granted
    MaxActs = 3
    MaxOthers = 1
    MaxFaults = 1
INVARIANTS
    TypeOK
    QuietMeansStored
PROPERTIES
    SaveEnds
CHECK_DEADLOCK FALSE
