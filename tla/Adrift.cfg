SPECIFICATION Spec
CONSTANTS
    Run = {r1}
    Text = {empty}
    NoText = empty
    Token = {t1}
    NoToken = none
    Settings <- SoloSettings
    Requests <- SoloRequests
    Actors = {}
INVARIANTS
    ConfirmedNotApplied
CHECK_DEADLOCK FALSE
