SPECIFICATION FairSpec
CONSTANTS
    Run = {r1}
    Text = {empty, essay}
    NoText = empty
    Token = {t1, t2}
    NoToken = none
    Settings <- SoloSettings
    Requests <- SoloRequests
    Actors = {"browser", "teacher", "account"}
INVARIANTS
    TypeOK
    OnlyWhatWasAsked
    LostIsNeverKnown
    UnsavedIsUnsaved
PROPERTIES
    KeepsContract
    HandedInIsRead
    TextLostOnlyToEdit
    Termination
