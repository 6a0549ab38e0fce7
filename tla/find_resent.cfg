SPECIFICATION FairSpec
CONSTANTS
    p1 = p1
    p2 = p2
    Processes = {p1}
    Exporters <- OneExporter
    Rejected = {}
    Capacity = 2
    MaxBatches = 2
    MaxOutages = 1
    MaxLost = 0
    MaxCrashes = 0
    MaxIoErrors = 0
    NoBatch = NoBatch
CHECK_DEADLOCK FALSE
PROPERTIES BufferedIsResent
