SPECIFICATION FairSpec
CONSTANTS
    k1 = k1
    k2 = k2
    Runners = {"timer"}
    Rules = {1}
    Keys = {k1}
    Settings <- EverySetting
    Window = 1
    OkKept = 1
    MaxAge = 3
    MaxRunTicks = 1
    MaxCrashes = 1
    MaxErrors = 1
    NotLoaded = NotLoaded
    NoAlert = NoAlert
CHECK_DEADLOCK FALSE
INVARIANTS TypeOK LastWord SavedFiringWasTold
PROPERTIES LastingBreachIsTold NewErrorIsTold
