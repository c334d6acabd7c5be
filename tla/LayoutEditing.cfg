SPECIFICATION Spec
CONSTANTS
    ann = ann
    bob = bob
    chart = chart
    table = table
    note = note
    Owners <- MCOwners
    Blocks <- MCBlocks
    Locked = {}
    Columns = 4
    Widths = {2, 4}
    MaxItems = 3
    Minimum <- MCMinimum
    AuthoredSpan <- MCAuthoredSpan
    AuthoredRows <- MCAuthoredRows
    NoLayout = NoLayout
    MaxEdits = 3
    FirstEdit = 2
SYMMETRY Symmetry
INVARIANTS
    TypeOK
PROPERTIES
    CommitsWhatWasShown
    MergeKeepsBoth
CHECK_DEADLOCK FALSE
