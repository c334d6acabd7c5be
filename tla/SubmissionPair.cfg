SPECIFICATION Spec
CONSTANTS
    Run = {r1, r2}
    Text = {empty, essay}
    NoText = empty
    Token = {t1}
    NoToken = none
    Settings <- PairSettings
    Requests <- PairRequests
    Actors = {"browser"}
PROPERTIES
    TextLostOnlyToEdit
CHECK_DEADLOCK FALSE
