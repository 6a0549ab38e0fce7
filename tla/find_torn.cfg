SPECIFICATION Spec
CONSTANTS
    Batches = {b1, b2}
    Flushes = {}
    Tick = Tick
    Compactors = {}
    Queries = {}
    LastHour = 0
    BatchLimit = 2
    ChannelCapacity = 2
    Retention = FALSE
    Crashes = TRUE
    Faults = {"torn"}
    MaxFaults = 1
    MaxStarts = 2
    MaxCompactions = 0
CHECK_DEADLOCK FALSE
INVARIANTS AckedDurable
