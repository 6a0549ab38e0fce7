SPECIFICATION FairSpec
CONSTANTS
    Slots = {1, 2}
    MaxLines = 2
    Continuations = {2}
    ReadLimit = 3
    Capacity = 1
    BatchLimit = 2
    MaxTroubles = 2
    Absent = Absent
INVARIANTS TypeOK NoLineTwice WholeLines LinesAccountedFor
PROPERTY LinesAreSent
CHECK_DEADLOCK FALSE
