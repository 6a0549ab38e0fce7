SPECIFICATION Spec
CONSTANTS
    Batches = {b1, b2}
    Flushes = {}
    Tick = Tick
    Compactors = {"timer", "api"}
    Queries = {q1}
    LastHour = 1
    BatchLimit = 2
    ChannelCapacity = 2
    Retention = TRUE
    Crashes = FALSE
    Faults = {}
    MaxFaults = 0
    MaxStarts = 1
    MaxCompactions = 2
CHECK_DEADLOCK FALSE
SYMMETRY Symmetry
INVARIANT SnapshotReadable
