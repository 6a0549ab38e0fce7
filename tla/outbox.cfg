SPECIFICATION FairSpec
CONSTANTS
    p1 = p1
    p2 = p2
    Processes = {p1, p2}
    Exporters <- OneExporter
    Rejected = {2}
    Capacity = 1
    MaxBatches = 2
    MaxOutages = 1
    MaxLost = 1
    MaxCrashes = 1
    MaxIoErrors = 1
    NoBatch = NoBatch
CHECK_DEADLOCK FALSE
INVARIANTS TypeOK Accounted StoredOnce
PROPERTIES NoticedIsResent
