SPECIFICATION Spec
CONSTANTS
    k1 = k1
    k2 = k2
    Runners = {"timer", "api"}
    Rules = {1}
    Keys = {k1}
    Settings <- Immediate
    Window = 1
    OkKept = 1
    MaxAge = 3
    MaxRunTicks = 0
    MaxCrashes = 0
    MaxErrors = 0
    NotLoaded = NotLoaded
    NoAlert = NoAlert
CHECK_DEADLOCK FALSE
PROPERTIES NoLateFiring
