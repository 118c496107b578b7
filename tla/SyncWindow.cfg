SPECIFICATION FairSpec
CONSTANTS
    MaxId = 2
    Page = 1
    Mine = {}
    V2 = {}
    Early = {}
    Realtime = FALSE
    MaxFault = 0
PROPERTY MarkersRepaired
CHECK_DEADLOCK FALSE
