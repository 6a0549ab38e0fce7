SPECIFICATION Spec
CONSTANTS
    Batches = {b1, b2}
    Flushes = {f1}
    Tick = Tick
    Compactors = {}
    Queries = {}
    LastHour = 0
    BatchLimit = 2
    ChannelCapacity = 2
    Retention = FALSE
    Crashes = TRUE
    Faults = {"wal", "open", "append", "parquet", "walDelete"}
    MaxFaults = 2
    MaxStarts = 2
    MaxCompactions = 0
CHECK_DEADLOCK FALSE
SYMMETRY Symmetry
INVARIANTS AckedDurable AckedVisible
PROPERTIES SegmentsImmutable ImplementsEventStore
