SPECIFICATION FairSpec
CONSTANTS
    Batches = {b1, b2}
    Flushes = {f1}
    Tick = Tick
    Compactors = {}
    Queries = {}
    LastHour = 0
    BatchLimit = 2
    ChannelCapacity = 2
    Retention = FALSE
    Crashes = TRUE
    Faults = {"wal", "torn", "open", "append", "parquet", "walDelete", "fileDelete", "replay", "load"}
    MaxFaults = 1
    MaxStarts = 2
    MaxCompactions = 0
CHECK_DEADLOCK FALSE
PROPERTIES EveryCallAnswered
