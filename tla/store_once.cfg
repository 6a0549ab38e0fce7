SPECIFICATION Spec
CONSTANTS
    Batches = {b1, b2, b3}
    Flushes = {f1}
    Tick = Tick
    Compactors = {"timer"}
    Queries = {}
    LastHour = 1
    BatchLimit = 2
    ChannelCapacity = 2
    Retention = FALSE
    Crashes = FALSE
    Faults = {"append", "wal"}
    MaxFaults = 1
    MaxStarts = 2
    MaxCompactions = 2
CHECK_DEADLOCK FALSE
SYMMETRY Symmetry
INVARIANTS SeenOnce
PROPERTIES FlushCoversAcked
